---------------------------- MODULE Spec2Model ----------------------------
(***************************************************************************)
(* A model of the synapse BitTorrent daemon: the peer-wire codec and       *)
(* reader, the disk file cache, the HTTP and UDP tracker handlers and the  *)
(* torrent aggregate with its peers' blocks and its tracker.  Each         *)
(* subsystem has its own variables, its own actions and its own            *)
(* specification; the other subsystems' variables are                      *)
(* left unchanged by it.                                                   *)
(***************************************************************************)
EXTENDS Integers, Sequences, FiniteSets, TLC

VARIABLES
    \* ---- peer-wire Reader (src/src/torrent/peer/reader.rs)
    cur,        \* the message the remote peer is sending (the handshake first)
    stream,     \* the bytes of cur on the wire
    pos,        \* number of bytes of stream the Reader has consumed
    nSent,      \* number of messages the remote peer has sent, cur included
    rd,         \* the Reader: state, prefix, idx and the state's buffers
    rres,       \* what the last call of Reader::readable returned
    out,        \* the message of the last RRes::Success
    nEmitted,   \* number of RRes::Success returned so far
    cut,        \* a call has ended before the end of cur
    outCut,     \* the message in out was read over several calls
    ref,        \* a second Reader, given every message in one chunk
    refOut,     \* what the second Reader returned for cur
    pool        \* free buffers of the global Buffer pool

readerVars ==
    <<cur, stream, pos, nSent, rd, rres, out, nEmitted, cut, outCut, ref, refOut, pool>>

\* The file cache (src/src/disk/cache.rs)
VARIABLES
    files,      \* FileCache.files: path -> Entry
    max_size,   \* FileCache.max_size
    disk,       \* the paths that exist in the file system
    last,       \* what the last call did
    nInserted,  \* entries inserted since FileCache::new
    nClosed     \* entries removed from the map (file handles closed) since then

cacheVars == <<files, max_size, disk, last, nInserted, nClosed>>

\* The HTTP tracker handler (src/src/tracker/http/mod.rs)
VARIABLES
    connections,  \* Handler.connections: id -> Tracker
    nextId,       \* the id the registrar hands out next
    resps,        \* the Responses the last call of the handler returned
    announced,    \* the Result of each new_announce called so far
    followed,     \* per announce: connections opened for a redirect
    ended         \* per announce: the results reported for it, in order

httpVars == <<connections, nextId, resps, announced, followed, ended>>

\* The UDP tracker handler (src/src/tracker/udp/mod.rs)
VARIABLES
    uconnections,  \* Handler.connections: id -> Connection
    transactions,  \* Handler.transactions: transaction id -> connection id
    conn_count,    \* Handler.conn_count
    uresps,        \* the Responses the last call of the handler returned
    sent,          \* the datagrams the last call of the handler sent
    ulast,         \* the last call of the handler and the datagram it received
    ticked         \* tick has run since time last passed

udpVars == <<uconnections, transactions, conn_count, uresps, sent, ulast, ticked>>

\* The torrent (src/src/torrent/mod.rs)
VARIABLES
    tor,        \* the Torrent, with what its last call sent out
    tlast       \* the call made last on the Torrent

torrentVars == <<tor, tlast>>

\* The codec of typed messages (src/protocol/src/lib.rs)
VARIABLES
    cmsg,       \* the message len and encode were last called on
    clen,       \* what Message::len returned for it
    cbuf        \* the bytes Message::encode wrote for it

codecVars == <<cmsg, clen, cbuf>>

\* The reader of an HTTP response (src/src/tracker/http/reader.rs)
VARIABLES
    hresp,      \* the response the tracker sends: code, header, lengths
    harrived,   \* the bytes of it that have arrived at the socket
    htaken,     \* the bytes of it the Reader has read
    hend,       \* how the connection has ended, "open" while it has not
    hreader,    \* the Reader
    hres        \* what the last call of readable returned

respVars == <<hresp, harrived, htaken, hend, hreader, hres>>

\* The file cache with the files it reads and writes (src/src/disk/cache.rs)
VARIABLES
    fcache,     \* FileCache.files: path -> Entry
    fmax,       \* FileCache.max_size
    fdisk,      \* the files of the file system: path -> bytes
    fwritten,   \* per path and offset: the byte last written there, or 0
    flast       \* the last call: what was asked and what it returned

filesVars == <<fcache, fmax, fdisk, fwritten, flast>>

\* The piece picker (src/src/torrent/picker, of which the tests are there)
VARIABLES
    pk,         \* the Picker: the blocks possessed, the blocks waited for
    pbits,      \* the pieces of the peer that is asked, and of another peer
    plast       \* the last call of the picker and what it returned

pickerVars == <<pk, pbits, plast>>

\* The persisted session of a torrent (src/session/src/lib.rs)
VARIABLES
    sver,       \* the version of synapse whose format the session was written in
    sinst,      \* the Session instance that version held
    sblob,      \* the bytes it wrote: bincode of the instance
    sres        \* what load returned for the bytes

sessionVars == <<sver, sinst, sblob, sres>>

\* The KRPC messages of the DHT (src/src/tracker/dht/proto.rs)
VARIABLES
    kmsg,       \* the Request or Response that is sent
    kwire,      \* the bytes encode made of it
    kdec,       \* what decode made of the bytes
    kwire2      \* the bytes encode made of the decoded message

krpcVars == <<kmsg, kwire, kdec, kwire2>>

\* The merge of JSON user data (src/rpc/src/resource.rs)
VARIABLES
    jin,        \* the original and the update merge_json is called with
    jorig,      \* original, the value merge_json works on
    jupd,       \* update, which merge_json takes values from
    jdone       \* merge_json has returned

jsonVars == <<jin, jorig, jupd, jdone>>

\* The life of a torrent (src/src/torrent/mod.rs)
VARIABLES
    lt,         \* the Torrent
    lorigin,    \* "new", or the status persisted in the data it was read from
    levents,    \* the Started and Stopped announces sent so far, in order
    ldropped    \* the Torrent has been dropped

lifeVars == <<lt, lorigin, levents, ldropped>>

\* The RPC client's WebSocket frames (src/src/rpc/client.rs)
VARIABLES
    fragbuf,        \* Client.buf, the fragment buffer: its variant and its bytes
    clast,       \* the last call of read_frame: what the reader gave, what came back
    cframes,     \* the data frames handed to the buffer for the message in progress
                 \* or, after a delivery, for the message delivered
    cdropped     \* the connection has been ended

clientVars == <<fragbuf, clast, cframes, cdropped>>

\* A criterion on a numeric field (src/rpc/src/criterion.rs)
VARIABLES
    qfield,      \* the Field the resource gave for the criterion's field
    qvalue,      \* Criterion.value
    qlast        \* the operator of the last Criterion::matches and its answer

criterionVars == <<qfield, qvalue, qlast>>

\* What each component leaves alone
notReader == <<cacheVars, httpVars, udpVars, torrentVars, codecVars, respVars, filesVars, pickerVars, sessionVars, krpcVars, jsonVars, lifeVars, clientVars, criterionVars>>
notCache == <<readerVars, httpVars, udpVars, torrentVars, codecVars, respVars, filesVars, pickerVars, sessionVars, krpcVars, jsonVars, lifeVars, clientVars, criterionVars>>
notHttp == <<readerVars, cacheVars, udpVars, torrentVars, codecVars, respVars, filesVars, pickerVars, sessionVars, krpcVars, jsonVars, lifeVars, clientVars, criterionVars>>
notUdp == <<readerVars, cacheVars, httpVars, torrentVars, codecVars, respVars, filesVars, pickerVars, sessionVars, krpcVars, jsonVars, lifeVars, clientVars, criterionVars>>
notTorrent == <<readerVars, cacheVars, httpVars, udpVars, codecVars, respVars, filesVars, pickerVars, sessionVars, krpcVars, jsonVars, lifeVars, clientVars, criterionVars>>
notCodec == <<readerVars, cacheVars, httpVars, udpVars, torrentVars, respVars, filesVars, pickerVars, sessionVars, krpcVars, jsonVars, lifeVars, clientVars, criterionVars>>
notResp == <<readerVars, cacheVars, httpVars, udpVars, torrentVars, codecVars, filesVars, pickerVars, sessionVars, krpcVars, jsonVars, lifeVars, clientVars, criterionVars>>
notFiles == <<readerVars, cacheVars, httpVars, udpVars, torrentVars, codecVars, respVars, pickerVars, sessionVars, krpcVars, jsonVars, lifeVars, clientVars, criterionVars>>
notPicker == <<readerVars, cacheVars, httpVars, udpVars, torrentVars, codecVars, respVars, filesVars, sessionVars, krpcVars, jsonVars, lifeVars, clientVars, criterionVars>>
notSession == <<readerVars, cacheVars, httpVars, udpVars, torrentVars, codecVars, respVars, filesVars, pickerVars, krpcVars, jsonVars, lifeVars, clientVars, criterionVars>>
notKrpc == <<readerVars, cacheVars, httpVars, udpVars, torrentVars, codecVars, respVars, filesVars, pickerVars, sessionVars, jsonVars, lifeVars, clientVars, criterionVars>>
notJson == <<readerVars, cacheVars, httpVars, udpVars, torrentVars, codecVars, respVars, filesVars, pickerVars, sessionVars, krpcVars, lifeVars, clientVars, criterionVars>>
notLife == <<readerVars, cacheVars, httpVars, udpVars, torrentVars, codecVars, respVars, filesVars, pickerVars, sessionVars, krpcVars, jsonVars, clientVars, criterionVars>>
notClient == <<readerVars, cacheVars, httpVars, udpVars, torrentVars, codecVars, respVars, filesVars, pickerVars, sessionVars, krpcVars, jsonVars, lifeVars, criterionVars>>
notCriterion == <<readerVars, cacheVars, httpVars, udpVars, torrentVars, codecVars, respVars, filesVars, pickerVars, sessionVars, krpcVars, jsonVars, lifeVars, clientVars>>

-----------------------------------------------------------------------------
(* Bounds of the model *)

\* most frames the remote peer sends after its handshake
MaxFrames == 2
\* size of the buffer pool
MaxPool == 1

\* payloads of the messages given to the codec: up to MaxPayload bytes
MaxPayload == 3

-----------------------------------------------------------------------------
(* Bytes *)

\* n bytes of value 0: [0u8; n]
Zeros(n) == [i \in 1..n |-> 0]

RECURSIVE Repeat(_, _)
Repeat(b, n) == IF n <= 0 THEN <<>> ELSE <<b>> \o Repeat(b, n - 1)

\* buf[idx..idx+Len(bytes)] = bytes, with Rust's 0-based idx
WriteAt(buf, idx, bytes) ==
    SubSeq(buf, 1, idx) \o bytes \o SubSeq(buf, idx + Len(bytes) + 1, Len(buf))

\* the first n elements of s
Take(s, n) == SubSeq(s, 1, n)
\* s without its first n elements
Drop(s, n) == SubSeq(s, n + 1, Len(s))

\* byteorder: write_u32::<BigEndian>
BE32_LittleEndian(v) ==
    <<v % 256, (v \div 256) % 256, (v \div 65536) % 256, (v \div 16777216) % 256>>

BE32(v) ==
    <<(v \div 16777216) % 256, (v \div 65536) % 256, (v \div 256) % 256, v % 256>>

\* byteorder: write_u16::<BigEndian>
BE16(v) == <<(v \div 256) % 256, v % 256>>

\* BigEndian::read_u32(&s[off..off+4]), off 0-based
ReadU32(s, off) ==
    s[off + 1] * 16777216 + s[off + 2] * 65536 + s[off + 3] * 256 + s[off + 4]

\* BigEndian::read_u16(&s[off..off+2]), off 0-based
ReadU16(s, off) == s[off + 1] * 256 + s[off + 2]

\* b"BitTorrent protocol"
ProtocolString ==
    <<66, 105, 116, 84, 111, 114, 114, 101, 110, 116, 32,
      112, 114, 111, 116, 111, 99, 111, 108>>

BUF_SIZE == 16384
HANDSHAKE_LEN == 68
PREFIX_LEN == 17

-----------------------------------------------------------------------------
(* Typed messages (protocol/src/lib.rs, enum Message) *)

\* A bitfield is a length in bits and its packed bytes.
BitfieldFrom(data, len) == [len |-> len, data |-> data]
BitfieldBytes(bf) == Len(bf.data)

MHandshake(rsv, hash, id) == [type |-> "Handshake", rsv |-> rsv, hash |-> hash, id |-> id]
MKeepAlive == [type |-> "KeepAlive"]
MChoke == [type |-> "Choke"]
MUnchoke == [type |-> "Unchoke"]
MInterested == [type |-> "Interested"]
MUninterested == [type |-> "Uninterested"]
MHave(p) == [type |-> "Have", piece |-> p]
MBitfield(bf) == [type |-> "Bitfield", bf |-> bf]
MRequest(i, b, l) == [type |-> "Request", index |-> i, begin |-> b, length |-> l]
MPiece(i, b, l, d) == [type |-> "Piece", index |-> i, begin |-> b, length |-> l, data |-> d]
MCancel(i, b, l) == [type |-> "Cancel", index |-> i, begin |-> b, length |-> l]
MPort(p) == [type |-> "Port", port |-> p]
MExtension(id, payload) == [type |-> "Extension", id |-> id, payload |-> payload]

\* Message::len
MessageLen(m) ==
    CASE m.type = "Handshake" -> 68
      [] m.type = "KeepAlive" -> 4
      [] m.type \in {"Choke", "Unchoke", "Interested", "Uninterested"} -> 5
      [] m.type = "Port" -> 7
      [] m.type = "Have" -> 9
      [] m.type = "Bitfield" -> 5 + BitfieldBytes(m.bf)
      [] m.type \in {"Request", "Cancel"} -> 17
      [] m.type = "Piece" -> 13 + Len(m.data)
      [] m.type = "Extension" -> 6 + Len(m.payload)

\* Message::encode: the bytes written to the caller's buffer.  A Piece's
\* payload is not written by encode: it is sent after the 13-byte header.
Encode(m) ==
    CASE m.type = "Handshake" -> <<19>> \o ProtocolString \o m.rsv \o m.hash \o m.id
      [] m.type = "KeepAlive" -> BE32(0)
      [] m.type = "Choke" -> BE32(1) \o <<0>>
      [] m.type = "Unchoke" -> BE32(1) \o <<1>>
      [] m.type = "Interested" -> BE32(1) \o <<2>>
      [] m.type = "Uninterested" -> BE32(1) \o <<3>>
      [] m.type = "Port" -> BE32(3) \o <<9>> \o BE16(m.port)
      [] m.type = "Have" -> BE32(5) \o <<4>> \o BE32(m.piece)
      [] m.type = "Bitfield" -> BE32(1 + BitfieldBytes(m.bf)) \o <<5>> \o m.bf.data
      [] m.type = "Request" ->
            BE32(13) \o <<6>> \o BE32(m.index) \o BE32(m.begin) \o BE32(m.length)
      [] m.type = "Piece" -> BE32(9 + m.length) \o <<7>> \o BE32(m.index) \o BE32(m.begin)
      [] m.type = "Cancel" ->
            BE32(13) \o <<8>> \o BE32(m.index) \o BE32(m.begin) \o BE32(m.length)
      [] m.type = "Extension" -> BE32(2 + Len(m.payload)) \o <<20, m.id>> \o m.payload

\* What goes on the wire for m: its encoding, then a Piece's block payload.
Wire(m) == IF m.type = "Piece" THEN Encode(m) \o Take(m.data, m.length) ELSE Encode(m)

-----------------------------------------------------------------------------
(* The codec called on a typed message *)

\* The buffers a Piece may carry: any byte slice, a pooled buffer of BUF_SIZE
\* bytes among them
PieceBuffers == {Zeros(n) : n \in 0..MaxPayload} \cup {Zeros(BUF_SIZE)}

\* The typed messages the codec is called on
CodecMsgs ==
    {MHandshake(rsv, Repeat(170, 20), Repeat(45, 20)) :
        rsv \in {Zeros(8), <<0, 0, 0, 0, 0, 16, 0, 1>>}}
    \cup {MKeepAlive, MChoke, MUnchoke, MInterested, MUninterested}
    \cup {MPort(p) : p \in {0, 6881, 65535}}
    \cup {MHave(i) : i \in {0, 255, 16909060}}
    \cup {MBitfield(BitfieldFrom(Repeat(255, n), 8 * n)) : n \in 0..MaxPayload}
    \cup {MRequest(i, b, l) : i \in {0, 1}, b \in {0, 16384}, l \in {1, 16384}}
    \cup {MCancel(i, b, l) : i \in {0, 1}, b \in {0, 16384}, l \in {1, 16384}}
    \cup {MPiece(i, b, l, d) : i \in {0, 1}, b \in {0, 16384}, l \in 0..MaxPayload,
                               d \in PieceBuffers}
    \cup {MExtension(id, Repeat(100, n)) : id \in {0, 9}, n \in 0..MaxPayload}

CodecInit ==
    /\ cmsg = [type |-> "None"]
    /\ clen = 0
    /\ cbuf = <<>>

\* Message::len and Message::encode are called on m
CodecCall(m) ==
    /\ cmsg' = m
    /\ clen' = MessageLen(m)
    /\ cbuf' = Encode(m)
    /\ UNCHANGED notCodec

CodecNext == \E m \in CodecMsgs : CodecCall(m)

\* The codec before any call
CodecIdle == CodecInit

-----------------------------------------------------------------------------
(* The peer-wire Reader (src/src/torrent/peer/reader.rs) *)

MAX_EXT_MSG_BYTES == 100000000

\* Reader::new
Reader_new ==
    [state |-> "Handshake", prefix |-> Zeros(PREFIX_LEN), idx |-> 0,
     data |-> Zeros(HANDSHAKE_LEN), plen |-> 0, hasBuf |-> FALSE, extId |-> 0]

\* State::len
StateLen(r) ==
    CASE r.state = "Len" -> 4
      [] r.state = "ID" -> 5
      [] r.state = "Have" -> 9
      [] r.state \in {"Request", "Cancel"} -> 17
      [] r.state = "PiecePrefix" -> 13
      [] r.state = "Port" -> 7
      [] r.state = "Handshake" -> 68
      [] r.state = "Piece" -> r.plen
      [] r.state = "Bitfield" -> Len(r.data)
      [] r.state = "ExtensionID" -> 6
      [] r.state = "Extension" -> Len(r.data)

\* util::aread on a buffer of n bytes when k bytes can be read without
\* blocking: one read() call, as the tests' Cursor serves it.
Aread(n, k) ==
    IF k = 0 THEN [tag |-> "Blocked", a |-> 0]
    ELSE IF n = 0 THEN [tag |-> "EOF", a |-> 0]
    ELSE IF k >= n THEN [tag |-> "Complete", a |-> n]
    ELSE [tag |-> "Incomplete", a |-> k]

\* self.idx += a
AdvanceIdx_Dropped(r, a) == r

AdvanceIdx(r, a) == [r EXCEPT !.idx = @ + a]

\* Buffer::get: Some(buffer) while the pool has one, None otherwise
BufferGet(p) == [some |-> p > 0, pool |-> IF p > 0 THEN p - 1 ELSE p]

Ret(r, used, ret, msg, p) == [rd |-> r, used |-> used, ret |-> ret, msg |-> msg, pool |-> p]

NoMsg == [type |-> "None"]

\* Message::Request / Message::Cancel read from the 17-byte prefix
TripleMsg_Swapped(type, prefix) ==
    [type |-> type, index |-> ReadU32(prefix, 9), begin |-> ReadU32(prefix, 5),
     length |-> ReadU32(prefix, 13)]

TripleMsg(type, prefix) ==
    [type |-> type, index |-> ReadU32(prefix, 5), begin |-> ReadU32(prefix, 9),
     length |-> ReadU32(prefix, 13)]

\* readable_, ID: the length of a Bitfield frame is over the limit
BitfieldTooLong(mlen) == mlen > BUF_SIZE

\* (the limit of a block applied to the length of the whole Piece frame)
PieceTooLong_Frame(mlen) == mlen > BUF_SIZE

\* readable_, PiecePrefix: the length of the block is over the limit
PieceTooLong(mlen) == mlen - 9 > BUF_SIZE

\* readable_, ExtensionID: the length of the payload is over the limit
ExtensionTooLong(mlen) == mlen - 2 > MAX_EXT_MSG_BYTES

\* What IOR::Complete does in each state of readable_: r already holds the
\* bytes just read.
OnComplete(r, used, p) ==
    LET mlen == ReadU32(r.prefix, 0) IN
    CASE r.state = "Handshake" ->
            IF SubSeq(r.data, 2, 20) # ProtocolString
            THEN Ret(r, used, "Err", NoMsg, p)
            ELSE Ret(r, used, "Success",
                     MHandshake(SubSeq(r.data, 21, 28), SubSeq(r.data, 29, 48),
                                SubSeq(r.data, 49, 68)), p)
      [] r.state = "Len" ->
            IF mlen = 0
            THEN Ret(r, used, "Success", MKeepAlive, p)
            ELSE Ret([r EXCEPT !.idx = 4, !.state = "ID"], used, "Continue", NoMsg, p)
      [] r.state = "ID" ->
            LET id == r.prefix[5]
                r5 == [r EXCEPT !.idx = 5]
            IN  CASE id = 0 -> Ret(r5, used, "Success", MChoke, p)
                  [] id = 1 -> Ret(r5, used, "Success", MUnchoke, p)
                  [] id = 2 -> Ret(r5, used, "Success", MInterested, p)
                  [] id = 3 -> Ret(r5, used, "Success", MUninterested, p)
                  [] id = 4 -> Ret([r5 EXCEPT !.state = "Have"], used, "Continue", NoMsg, p)
                  [] id = 5 ->
                        IF BitfieldTooLong(mlen)
                        THEN Ret(r5, used, "Err", NoMsg, p)
                        ELSE Ret([r5 EXCEPT !.idx = 0, !.state = "Bitfield",
                                            !.data = Zeros(mlen - 1)],
                                 used, "Continue", NoMsg, p)
                  [] id = 6 -> Ret([r5 EXCEPT !.state = "Request"], used, "Continue", NoMsg, p)
                  [] id = 7 ->
                        Ret([r5 EXCEPT !.state = "PiecePrefix"], used, "Continue", NoMsg, p)
                  [] id = 8 -> Ret([r5 EXCEPT !.state = "Cancel"], used, "Continue", NoMsg, p)
                  [] id = 9 -> Ret([r5 EXCEPT !.state = "Port"], used, "Continue", NoMsg, p)
                  [] id = 20 ->
                        Ret([r5 EXCEPT !.state = "ExtensionID"], used, "Continue", NoMsg, p)
                  [] OTHER -> Ret(r5, used, "Err", NoMsg, p)
      [] r.state = "Have" -> Ret(r, used, "Success", MHave(ReadU32(r.prefix, 5)), p)
      [] r.state = "Bitfield" ->
            Ret([r EXCEPT !.data = <<>>], used, "Success",
                MBitfield(BitfieldFrom(r.data, Len(r.data) * 8)), p)
      [] r.state = "Request" -> Ret(r, used, "Success", TripleMsg("Request", r.prefix), p)
      [] r.state = "Cancel" -> Ret(r, used, "Success", TripleMsg("Cancel", r.prefix), p)
      [] r.state = "PiecePrefix" ->
            \* mlen - 9 in u32: below 9 it overflows (a panic in a debug build,
            \* a length over the limit in a release build)
            IF mlen < 9 THEN Ret(r, used, "Overflow", NoMsg, p)
            ELSE IF PieceTooLong(mlen) THEN Ret(r, used, "Err", NoMsg, p)
            ELSE LET b == BufferGet(p) IN
                 Ret([r EXCEPT !.idx = 0, !.state = "Piece", !.plen = mlen - 9,
                               !.hasBuf = b.some, !.data = Zeros(mlen - 9)],
                     used, "Continue", NoMsg, b.pool)
      [] r.state = "Piece" ->
            Ret([r EXCEPT !.hasBuf = FALSE, !.data = <<>>], used, "Success",
                MPiece(ReadU32(r.prefix, 5), ReadU32(r.prefix, 9), r.plen, r.data), p)
      [] r.state = "Port" -> Ret(r, used, "Success", MPort(ReadU16(r.prefix, 5)), p)
      [] r.state = "ExtensionID" ->
            IF mlen < 2 THEN Ret([r EXCEPT !.idx = 0], used, "Overflow", NoMsg, p)
            ELSE IF ExtensionTooLong(mlen)
            THEN Ret([r EXCEPT !.idx = 0], used, "Err", NoMsg, p)
            ELSE Ret([r EXCEPT !.idx = 0, !.state = "Extension", !.extId = r.prefix[6],
                               !.data = Zeros(mlen - 2)],
                     used, "Continue", NoMsg, p)
      [] r.state = "Extension" ->
            Ret([r EXCEPT !.data = <<>>], used, "Success", MExtension(r.extId, r.data), p)

\* (a stall that forgets the header read and starts over at the next length)
Stall_StartsOver(r, p) ==
    Ret([r EXCEPT !.state = "Len", !.idx = 0], 0, "Stalled", NoMsg, p)

\* readable_, State::Piece: no buffer in the pool, return RRes::Stalled; nothing
\* is read and the state is left as it is
Stall(r, p) == Ret(r, 0, "Stalled", NoMsg, p)

\* One turn of the loop of readable_: one aread into the state's buffer.
\* bytes are the bytes the connection can deliver now.
ReadStep(r, bytes, p) ==
    IF r.state = "Piece" /\ ~r.hasBuf /\ ~BufferGet(p).some
    THEN Stall(r, p)
    ELSE
    LET withBuf == r.state = "Piece" /\ ~r.hasBuf
        p1 == IF withBuf THEN BufferGet(p).pool ELSE p
        r1 == IF withBuf THEN [r EXCEPT !.hasBuf = TRUE] ELSE r
        inData == r1.state \in {"Handshake", "Bitfield", "Piece", "Extension"}
        start == IF r1.state = "ExtensionID" THEN 5 ELSE r1.idx
        io == Aread(StateLen(r1) - start, Len(bytes))
        got == Take(bytes, io.a)
        r2 == IF inData THEN [r1 EXCEPT !.data = WriteAt(@, start, got)]
              ELSE [r1 EXCEPT !.prefix = WriteAt(@, start, got)]
    IN  CASE io.tag = "Complete" -> OnComplete(r2, io.a, p1)
          [] io.tag = "Incomplete" -> Ret(AdvanceIdx(r2, io.a), io.a, "Continue", NoMsg, p1)
          [] io.tag = "Blocked" -> Ret(r1, 0, "Blocked", NoMsg, p1)
          [] io.tag = "EOF" -> Ret(r1, 0, "Err", NoMsg, p1)

\* Reader::readable_: the loop, until a turn returns
RECURSIVE ReadableInner(_, _, _, _)
ReadableInner(r, bytes, p, used) ==
    LET s == ReadStep(r, bytes, p) IN
    IF s.ret = "Continue"
    THEN ReadableInner(s.rd, Drop(bytes, s.used), s.pool, used + s.used)
    ELSE [s EXCEPT !.used = used + s.used]

\* Reader::readable
Readable(r, bytes, p) ==
    LET s == ReadableInner(r, bytes, p, 0) IN
    IF s.ret = "Success"
    THEN [s EXCEPT !.rd.state = "Len", !.rd.idx = 0, !.rd.data = <<>>, !.rd.plen = 0]
    ELSE s

-----------------------------------------------------------------------------
(* The Reader fed by a remote peer *)

\* The handshakes and frames the remote peer may send: every message type,
\* integers that fill one, two and four bytes, payloads of one and two bytes,
\* and a bitfield whose length in bits is not a multiple of 8.
Handshakes ==
    {MHandshake(rsv, Repeat(170, 20), Repeat(45, 20)) :
        rsv \in {Zeros(8), <<0, 0, 0, 0, 0, 16, 0, 1>>}}

FrameMsgs ==
    {MKeepAlive, MChoke, MUnchoke, MInterested, MUninterested,
     MHave(16909060),
     MBitfield(BitfieldFrom(<<255>>, 8)), MBitfield(BitfieldFrom(<<255, 224>>, 11)),
     MRequest(1, 16384, 16384), MCancel(16909060, 0, 258),
     MPiece(16909060, 16384, 2, <<65, 66>>),
     MPort(6881), MExtension(9, <<100, 101>>)}

\* The second Reader reads a whole message in one call, with a buffer at hand.
OneShot(r, m) == Readable(r, Wire(m), 1)

ReaderInit ==
    /\ cur \in Handshakes
    /\ stream = Wire(cur)
    /\ pos = 0
    /\ nSent = 1
    /\ rd = Reader_new
    /\ rres = "None"
    /\ out = NoMsg
    /\ nEmitted = 0
    /\ cut = FALSE
    /\ outCut = FALSE
    /\ ref = OneShot(Reader_new, cur).rd
    /\ refOut = OneShot(Reader_new, cur).msg
    /\ pool \in 0..MaxPool

\* The remote peer sends one more frame.  A call of readable returns at the
\* end of a message at the latest, so the bytes that follow the message being
\* read do not affect it: the next frame is chosen once the Reader is through
\* with the bytes sent before.
PeerSends(m) ==
    /\ rres \notin {"Err", "Overflow"}
    /\ pos = Len(stream)
    /\ nSent <= MaxFrames
    /\ cur' = m
    /\ stream' = Wire(m)
    /\ pos' = 0
    /\ nSent' = nSent + 1
    /\ LET s == OneShot(ref, m) IN ref' = s.rd /\ refOut' = s.msg
    /\ UNCHANGED <<rd, rres, out, nEmitted, cut, outCut, pool, notReader>>

\* The owner calls Reader::readable while k more bytes of the stream have
\* arrived (k = 0: a spurious wakeup).
ReaderReadable(k) ==
    /\ rres \notin {"Err", "Overflow"}
    /\ LET s == Readable(rd, SubSeq(stream, pos + 1, pos + k), pool) IN
       /\ rd' = s.rd
       /\ pos' = pos + s.used
       /\ rres' = s.ret
       /\ pool' = s.pool
       /\ out' = IF s.ret = "Success" THEN s.msg ELSE out
       /\ nEmitted' = IF s.ret = "Success" THEN nEmitted + 1 ELSE nEmitted
       /\ outCut' = IF s.ret = "Success" THEN cut ELSE outCut
       /\ cut' = IF s.ret = "Success" THEN FALSE
                 ELSE cut \/ (s.ret = "Blocked" /\ pos + s.used > 0)
    /\ UNCHANGED <<cur, stream, nSent, ref, refOut, notReader>>

\* Another reader takes a buffer from the pool
PoolTake ==
    /\ pool > 0
    /\ pool' = pool - 1
    /\ UNCHANGED <<cur, stream, pos, nSent, rd, rres, out, nEmitted, cut, outCut, ref, refOut, notReader>>

\* A buffer is dropped elsewhere and returns to the pool
PoolReturn ==
    /\ pool + (IF rd.hasBuf THEN 1 ELSE 0) < MaxPool
    /\ pool' = pool + 1
    /\ UNCHANGED <<cur, stream, pos, nSent, rd, rres, out, nEmitted, cut, outCut, ref, refOut, notReader>>

ReaderNext ==
    \/ \E m \in FrameMsgs : PeerSends(m)
    \/ \E k \in 0..(Len(stream) - pos) : ReaderReadable(k)
    \/ PoolTake
    \/ PoolReturn

\* The state of a Reader nothing is sent to
ReaderIdle ==
    /\ cur = MKeepAlive
    /\ stream = <<>>
    /\ pos = 0
    /\ nSent = 0
    /\ rd = Reader_new
    /\ rres = "None"
    /\ out = NoMsg
    /\ nEmitted = 0
    /\ cut = FALSE
    /\ outCut = FALSE
    /\ ref = Reader_new
    /\ refOut = NoMsg
    /\ pool = 0

-----------------------------------------------------------------------------
(* The Reader fed a handshake and the head of one frame, well formed or not *)

\* What the remote peer sends: whether the protocol string of its handshake is
\* right, then a frame of message id id whose length prefix is mlen
Raw(good, id, mlen) == [type |-> "Raw", good |-> good, id |-> id, mlen |-> mlen]

\* The bytes of a frame that come before its payload
HeaderLen(id) == CASE id = 7 -> 13 [] id = 20 -> 6 [] OTHER -> 5

\* The bytes of the payload of a frame of length prefix mlen
Payload(id, mlen) ==
    CASE id = 7 -> mlen - 9 [] id = 20 -> mlen - 2 [] OTHER -> mlen - 1

\* The handshake, the head of the frame and the first 2 bytes that follow it
RawWire(raw) ==
    <<19>> \o (IF raw.good THEN ProtocolString ELSE [ProtocolString EXCEPT ![1] = 98])
    \o Zeros(8) \o Repeat(170, 20) \o Repeat(45, 20)
    \o BE32(raw.mlen) \o <<raw.id>> \o Repeat(1, HeaderLen(raw.id) - 5) \o <<65, 66>>

\* Frames around the limits, frames of unknown ids, and a wrong handshake
Raws ==
    {Raw(FALSE, 0, 1)}
    \cup {Raw(TRUE, id, 1) : id \in {10, 19, 21, 255}}
    \cup {Raw(TRUE, 5, mlen) : mlen \in {BUF_SIZE, BUF_SIZE + 1, BUF_SIZE + 2}}
    \cup {Raw(TRUE, 7, mlen) : mlen \in {BUF_SIZE + 9, BUF_SIZE + 10}}
    \cup {Raw(TRUE, 20, mlen) : mlen \in {MAX_EXT_MSG_BYTES + 3, MAX_EXT_MSG_BYTES + 4}}

DecoderInit ==
    /\ cur \in Raws
    /\ stream = RawWire(cur)
    /\ pos = 0
    /\ nSent = 1
    /\ rd = Reader_new
    /\ rres = "None"
    /\ out = NoMsg
    /\ nEmitted = 0
    /\ cut = FALSE
    /\ outCut = FALSE
    /\ ref = Reader_new
    /\ refOut = NoMsg
    /\ pool \in 0..MaxPool

DecoderNext == \E k \in 0..(Len(stream) - pos) : ReaderReadable(k)

-----------------------------------------------------------------------------
(* The Reader fed a handshake, one frame whose length prefix may disagree
   with its message id, and the frames that follow it *)

\* The length prefix of a frame of a message of fixed size
FixedLen(id) ==
    CASE id \in 0..3 -> 1 [] id = 4 -> 5 [] id \in {6, 8} -> 13 [] id = 9 -> 3

\* The length prefix can be that of a frame of message id
LengthFits(id, mlen) ==
    CASE id \in {0, 1, 2, 3, 4, 6, 8, 9} -> mlen = FixedLen(id)
      [] id = 5 -> mlen >= 1
      [] id = 7 -> mlen >= 9
      [] id = 20 -> mlen >= 2

\* The frames that follow: a Choke and three KeepAlives
Following == <<0, 0, 0, 1, 0>> \o Zeros(12)

\* The handshake, the frame as its sender delimits it (the length prefix and
\* that many bytes, the message id first) and the frames that follow
FramedWire(raw) ==
    <<19>> \o ProtocolString \o Zeros(8) \o Repeat(170, 20) \o Repeat(45, 20)
    \o BE32(raw.mlen) \o <<raw.id>> \o Repeat(1, raw.mlen - 1) \o Following

\* The length prefixes tried with every message id
FramedLens == {1, 3, 5, 6, 9, 11, 13}

\* Frames of every message id; those with an empty Bitfield, block or
\* Extension payload are left out
FramedRaws ==
    {raw \in {Raw(TRUE, id, mlen) : id \in (0..9) \cup {20}, mlen \in FramedLens} :
        /\ raw.id = 5 => raw.mlen > 1
        /\ raw.id = 7 => raw.mlen # 9}

FramingInit ==
    /\ cur \in FramedRaws
    /\ stream = FramedWire(cur)
    /\ pos = 0
    /\ nSent = 1
    /\ rd = Reader_new
    /\ rres = "None"
    /\ out = NoMsg
    /\ nEmitted = 0
    /\ cut = FALSE
    /\ outCut = FALSE
    /\ ref = Reader_new
    /\ refOut = NoMsg
    /\ pool = 1

\* The owner calls Reader::readable until the frame is through
FramingReadable(k) ==
    /\ nEmitted < 2
    /\ ReaderReadable(k)

FramingNext == \E k \in 0..(Len(stream) - pos) : FramingReadable(k)

-----------------------------------------------------------------------------
(* The file cache (src/src/disk/cache.rs) *)

\* Bounds: the paths used, the largest max_size, the insertions followed
MaxPaths == 3
MaxCap == 2
MaxInserts == 3

Paths == 1..MaxPaths

\* Mode and RequestedSize: read only, or read-write with or without fallocate
Modes == {"ReadOnly", "WithFallocate", "WithoutFallocate"}

\* What the file system answers within one call: whether directories and the
\* file can be created, whether the file already has the requested length,
\* what fallocate returns (Ok(true), Ok(false), Err), what is_sparse returns
IoAnswers ==
    [create : BOOLEAN, sameLen : BOOLEAN, falloc : {"ok", "unsupported", "err"},
     sparse : BOOLEAN]

Entry(used, state, alloc_failed, sparse) ==
    [used |-> used, state |-> state, alloc_failed |-> alloc_failed, sparse |-> sparse]

NoFiles == [p \in {} |-> Entry(FALSE, "ReadOnly", FALSE, FALSE)]

\* HashMap::remove
MapRemove(fs, ks) == [p \in DOMAIN fs \ ks |-> fs[p]]

\* HashMap::insert
MapInsert(fs, k, e) == [p \in DOMAIN fs \cup {k} |-> IF p = k THEN e ELSE fs[p]]

\* The result of ensure_exists: the map, the file system, the entries closed,
\* whether an entry was inserted, and Ok or Err
CacheRes(fs, dk, closed, inserted, ok) ==
    [files |-> fs, disk |-> dk, closed |-> closed, inserted |-> inserted, ok |-> ok]

\* The sweep of ensure_exists when the map is full: every used entry loses its
\* mark, and the last unmarked entry of the iteration (any of them, the order
\* of a HashMap being arbitrary) is removed; victim is that entry, or 0
Sweep(fs, victim) ==
    LET cleared == [p \in DOMAIN fs |-> [fs[p] EXCEPT !.used = FALSE]]
    IN  MapRemove(cleared, {victim})

Victims(fs) ==
    LET unused == {p \in DOMAIN fs : ~fs[p].used}
    IN  IF unused = {} THEN {0} ELSE unused

\* The match of files.insert, had a read-only open created the file
OpenOk_ReadCreates(dk, path, mode, io) ==
    IF mode = "ReadOnly"
    THEN TRUE
    ELSE io.create /\ ~(mode = "WithFallocate" /\ ~io.sameLen /\ io.falloc = "err")

\* Whether the match of files.insert gets to build its entry (no `?` returns)
OpenOk(dk, path, mode, io) ==
    IF mode = "ReadOnly"
    THEN path \in dk
    ELSE io.create /\ ~(mode = "WithFallocate" /\ ~io.sameLen /\ io.falloc = "err")

\* The entry of files.insert, had it kept the role of a read-only entry
NewEntry_AlwaysReadOnly(mode, io) == Entry(TRUE, "ReadOnly", FALSE, FALSE)

\* The entry the match of files.insert builds
NewEntry(mode, io) ==
    IF mode = "ReadOnly"
    THEN Entry(TRUE, "ReadOnly", FALSE, FALSE)
    ELSE Entry(TRUE, "ReadWrite",
               mode = "WithFallocate" /\ ~io.sameLen /\ io.falloc = "unsupported",
               io.sparse)

\* ensure_exists from the sweep on
SweepAndInsert(fs, cap, dk, path, mode, io, victim, closed) ==
    LET full == Cardinality(DOMAIN fs) >= cap
        swept == IF full THEN Sweep(fs, victim) ELSE fs
        gone == closed \cup (IF full THEN {victim} \ {0} ELSE {})
        created == mode # "ReadOnly" /\ io.create
        dk2 == IF created THEN dk \cup {path} ELSE dk
    IN  IF OpenOk(dk, path, mode, io)
        THEN CacheRes(MapInsert(swept, path, NewEntry(mode, io)), dk2, gone, TRUE, TRUE)
        ELSE CacheRes(swept, dk2, gone, FALSE, FALSE)

\* FileCache::ensure_exists
EnsureExists(fs, cap, dk, path, mode, io, victim) ==
    IF path \in DOMAIN fs
    THEN IF mode = "ReadOnly"
         THEN CacheRes(fs, dk, {}, FALSE, TRUE)
         ELSE IF fs[path].state = "ReadOnly"
         THEN SweepAndInsert(MapRemove(fs, {path}), cap, dk, path, mode, io, victim, {path})
         ELSE IF mode = "WithFallocate" /\ fs[path].sparse /\ ~fs[path].alloc_failed
         THEN IF ~io.create \/ io.falloc = "err"
              THEN CacheRes(fs, dk, {}, FALSE, FALSE)
              ELSE LET af == io.falloc = "unsupported"
                       e == [fs[path] EXCEPT !.alloc_failed = af,
                                             !.sparse = IF af THEN @ ELSE FALSE]
                   IN  CacheRes([fs EXCEPT ![path] = e], dk, {}, FALSE, TRUE)
         ELSE CacheRes(fs, dk, {}, FALSE, TRUE)
    ELSE SweepAndInsert(fs, cap, dk, path, mode, io, victim, {})

\* The map the sweep of ensure_exists iterates over
SweptMap(fs, path, mode) ==
    IF path \in DOMAIN fs /\ mode # "ReadOnly" /\ fs[path].state = "ReadOnly"
    THEN MapRemove(fs, {path})
    ELSE fs

Last(op, path, wasFull, closed, inserted, ok) ==
    [op |-> op, path |-> path, wasFull |-> wasFull, closed |-> closed,
     inserted |-> inserted, ok |-> ok]

CacheInit ==
    /\ files = NoFiles
    /\ max_size \in 1..MaxCap
    /\ disk = Paths \ {1}
    /\ last = Last("new", 0, FALSE, {}, FALSE, TRUE)
    /\ nInserted = 0
    /\ nClosed = 0

\* The state of a cache nothing uses
CacheIdle ==
    /\ files = NoFiles
    /\ max_size = 1
    /\ disk = {}
    /\ last = Last("new", 0, FALSE, {}, FALSE, TRUE)
    /\ nInserted = 0
    /\ nClosed = 0

CacheCall(op, path, mode, io, victim) ==
    LET res == EnsureExists(files, max_size, disk, path, mode, io, victim)
    IN  /\ files' = res.files
        /\ disk' = res.disk
        /\ last' = Last(op, path, Cardinality(DOMAIN files) >= max_size,
                        res.closed, res.inserted, res.ok)
        /\ nInserted' = nInserted + (IF res.inserted THEN 1 ELSE 0)
        /\ nClosed' = nClosed + Cardinality(res.closed)
        /\ UNCHANGED <<max_size, notCache>>

\* FileCache::read_file_range
ReadFileRange(path) ==
    /\ nInserted < MaxInserts
    /\ \E victim \in Victims(files) :
         CacheCall("read", path, "ReadOnly",
                   [create |-> FALSE, sameLen |-> TRUE, falloc |-> "ok", sparse |-> FALSE],
                   victim)

\* The answers that differ in what a call for path in this mode makes of them
AnswersFor(fs, path, mode) ==
    IF path \in DOMAIN fs /\ fs[path].state = "ReadWrite"
    THEN {io \in IoAnswers :
            /\ io.sameLen /\ ~io.sparse
            /\ ~io.create => io.falloc = "ok"
            /\ ~(mode = "WithFallocate" /\ fs[path].sparse /\ ~fs[path].alloc_failed)
                 => io.create /\ io.falloc = "ok"}
    ELSE {io \in IoAnswers :
            /\ ~io.create => io.sameLen /\ ~io.sparse /\ io.falloc = "ok"
            /\ mode = "WithoutFallocate" => io.sameLen /\ io.falloc = "ok"
            /\ io.sameLen => io.falloc = "ok"
            /\ io.falloc = "err" => ~io.sparse}

\* FileCache::write_file_range
WriteFileRange(path, mode) ==
    /\ nInserted < MaxInserts
    /\ \E io \in AnswersFor(files, path, mode),
          victim \in Victims(SweptMap(files, path, mode)) :
         CacheCall("write", path, mode, io, victim)

\* FileCache::remove_file
RemoveFile(path) ==
    /\ path \in DOMAIN files
    /\ files' = MapRemove(files, {path})
    /\ last' = Last("remove", path, Cardinality(DOMAIN files) >= max_size,
                    {path}, FALSE, TRUE)
    /\ nClosed' = nClosed + 1
    /\ UNCHANGED <<max_size, disk, nInserted, notCache>>

CacheNext ==
    \/ \E path \in Paths : ReadFileRange(path)
    \/ \E path \in Paths, mode \in Modes \ {"ReadOnly"} : WriteFileRange(path, mode)
    \/ \E path \in Paths : RemoveFile(path)

-----------------------------------------------------------------------------
(* The HTTP tracker handler (src/src/tracker/http/mod.rs) *)

\* Bounds: the announces made, the connections registered
MaxAnnounces == 1
MaxConns == 3

HTTP_TIMEOUT_MS == 5000

Torrents == 1..MaxAnnounces

\* What the network answers within one call of the handler: the DNS result,
\* whether connect succeeds, what Writer::writable returns on its first and
\* second call (Some, None, Err) and what Reader::readable returns on its
\* first and second call (a body that decodes, a body that does not, a
\* redirect, None, Err)
WriteAnswers == {"done", "wait", "err"}
ReadAnswers == {"done", "bad", "redirect", "wait", "err"}
NetAnswers ==
    [dns : BOOLEAN, connect : BOOLEAN,
     w : [1..2 -> WriteAnswers], r : [1..2 -> ReadAnswers]]

\* A TrackerState and the answers not yet used; err is the Error of an Err
St(state, err, wi, ri) == [state |-> state, err |-> err, wi |-> wi, ri |-> ri]

\* TrackerState::next in state Reading
NextReading(s, io) ==
    LET a == io.r[s.ri] IN
    CASE a = "done" -> St("Complete", "", s.wi, s.ri + 1)
      [] a = "bad" -> St("Err", "ResponseInvalidBencode", s.wi, s.ri + 1)
      [] a = "redirect" -> St("Redirect", "", s.wi, s.ri + 1)
      [] a = "wait" -> St("Reading", "", s.wi, s.ri + 1)
      [] OTHER -> St("Err", "Read", s.wi, s.ri + 1)

\* TrackerState::next in state Writing
NextWriting(s, io) ==
    LET a == io.w[s.wi] IN
    CASE a = "done" -> NextReading(St("Reading", "", s.wi + 1, s.ri), io)
      [] a = "wait" -> St("Writing", "", s.wi + 1, s.ri)
      [] OTHER -> St("Err", "Write", s.wi + 1, s.ri)

\* (next that starts to write on any event, the address resolved or not)
NextRW_Eager(s, io) ==
    CASE s.state = "Err" -> s
      [] s.state \in {"Writing", "ResolvingDNS"} -> NextWriting(s, io)
      [] s.state = "Reading" -> NextReading(s, io)
      [] OTHER -> St("Err", "BadStateTransition", s.wi, s.ri)

\* TrackerState::next for the events Readable and Writable
NextRW(s, io) ==
    CASE s.state = "Err" -> s
      [] s.state = "Writing" -> NextWriting(s, io)
      [] s.state = "Reading" -> NextReading(s, io)
      [] s.state = "ResolvingDNS" -> s
      [] OTHER -> St("Err", "BadStateTransition", s.wi, s.ri)

\* TrackerState::next for the event DNSResolved
NextDNS(s, io) ==
    IF s.state = "ResolvingDNS"
    THEN IF ~io.dns THEN St("Err", "DNS", 1, 1)
         ELSE IF ~io.connect THEN St("Err", "Connect", 1, 1)
         ELSE NextRW(NextRW(St("Writing", "", 1, 1), io), io)
    ELSE NextRW(s, io)

\* The TrackerStates that next makes, one after the other, in state Reading
ReadingVisits(s, io) == <<NextReading(s, io).state>>

\* The TrackerStates that next makes in state Writing: Reading, and what its
\* next makes, once the request is written
WritingVisits(s, io) ==
    IF io.w[s.wi] = "done"
    THEN <<"Reading">> \o ReadingVisits(St("Reading", "", s.wi + 1, s.ri), io)
    ELSE <<NextWriting(s, io).state>>

\* The TrackerStates that next makes for the events Readable and Writable
\* (none when the ? has returned the Err before)
RWVisits(s, io) ==
    CASE s.state = "Err" -> <<>>
      [] s.state = "Writing" -> WritingVisits(s, io)
      [] s.state = "Reading" -> ReadingVisits(s, io)
      [] s.state = "ResolvingDNS" -> <<"ResolvingDNS">>
      [] OTHER -> <<"Err">>

\* The TrackerStates that next makes for the event DNSResolved: Writing, then
\* those of its next(Writable) and of the next(Readable) of the result
DNSVisits(s, io) ==
    IF s.state = "ResolvingDNS"
    THEN IF ~io.dns \/ ~io.connect THEN <<"Err">>
         ELSE <<"Writing">> \o RWVisits(St("Writing", "", 1, 1), io)
                  \o RWVisits(NextRW(St("Writing", "", 1, 1), io), io)
    ELSE RWVisits(s, io)

\* TrackerState::handle, given the result n of next: the state left in the
\* Tracker and the HTTPRes
HandleNext(n) ==
    CASE n.state = "Err" -> [state |-> "Error", res |-> "Err", err |-> n.err]
      [] n.state = "Complete" -> [state |-> "Error", res |-> "Complete", err |-> ""]
      [] n.state = "Redirect" -> [state |-> "Error", res |-> "Redirect", err |-> ""]
      [] OTHER -> [state |-> n.state, res |-> "None", err |-> ""]

\* TrackerState::handle
Handle(state, event, io) ==
    IF event = "DNSResolved"
    THEN HandleNext(NextDNS(St(state, "", 1, 1), io))
    ELSE HandleNext(NextRW(St(state, "", 1, 1), io))

\* A Tracker: age is the ms since last_updated; since is the ms since the
\* new_announce of its announce was called, which the handler does not keep
Tracker(torrent, redirect, state, age, since) ==
    [torrent |-> torrent, redirect |-> redirect, state |-> state, age |-> age,
     since |-> since]

Response(tid, res) == [tid |-> tid, res |-> res]

\* The handler after a call: its connections and what the call returns
HRes(conns, resp) == [conns |-> conns, resp |-> resp]

\* Handler::dns_resolved and Handler::writable, given the result h of handle
Handled(conns, id, h) ==
    IF h.res = "Err"
    THEN HRes(MapRemove(conns, {id}), <<Response(conns[id].torrent, h.err)>>)
    ELSE HRes([conns EXCEPT ![id].age = 0, ![id].state = h.state], <<>>)

\* Handler::dns_resolved
DnsResolved(conns, id, io) ==
    IF id \in DOMAIN conns
    THEN Handled(conns, id, Handle(conns[id].state, "DNSResolved", io))
    ELSE HRes(conns, <<>>)

\* What is asked of the environment when a connection is set up: whether the
\* URL parses and has a host, whether the socket is created and registered,
\* and what dns.new_query returns (None, a cached address, Err)
SetupAnswers == [url : BOOLEAN, sock : BOOLEAN, query : {"pending", "cached", "err"}]

\* The handler after setting up a connection: its connections, the next id,
\* and the Result (Ok or the Error)
SRes(conns, nid, result) == [conns |-> conns, nid |-> nid, result |-> result]

\* new_announce and try_redirect once dns.new_query has a cached address
Cached(d, nid) == SRes(d.conns, nid + 1, IF d.resp # <<>> THEN "Connection" ELSE "Ok")

\* new_announce and try_redirect once the connection is inserted (in c1)
Query(c1, nid, su, io) ==
    CASE su.query = "err" -> SRes(c1, nid + 1, "DnsIo")
      [] su.query = "cached" -> Cached(DnsResolved(c1, nid, [io EXCEPT !.dns = TRUE]), nid)
      [] OTHER -> SRes(c1, nid + 1, "Ok")

\* new_announce and try_redirect from SStream::new_v4 on
Connect(conns, nid, torrent, redirect, since, su, io) ==
    IF ~su.sock THEN SRes(conns, nid, "CreateSocket")
    ELSE Query(MapInsert(conns, nid, Tracker(torrent, redirect, "ResolvingDNS", 0, since)),
               nid, su, io)

\* Handler::try_redirect
TryRedirect(conns, nid, torrent, since, su, io) ==
    IF ~su.url THEN SRes(conns, nid, "UrlParse")
    ELSE Connect(conns, nid, torrent, TRUE, since, su, io)

\* Handler::readable once try_redirect has returned t
Redirected(trk, t) ==
    SRes(t.conns, t.nid,
         IF t.result # "Ok" THEN <<Response(trk.torrent, t.result)>>
         ELSE IF trk.redirect THEN <<Response(trk.torrent, "TooManyRedirects")>>
         ELSE <<>>)

\* Handler::readable, given the result h of handle
ReadableHandled(conns, nid, id, h, su, io2) ==
    CASE h.res = "Complete" ->
           SRes(MapRemove(conns, {id}), nid, <<Response(conns[id].torrent, "Ok")>>)
      [] h.res = "Err" ->
           SRes(MapRemove(conns, {id}), nid, <<Response(conns[id].torrent, h.err)>>)
      [] h.res = "None" ->
           SRes([conns EXCEPT ![id].age = 0, ![id].state = h.state], nid, <<>>)
      [] OTHER ->
           Redirected(conns[id],
                      TryRedirect(MapRemove(conns, {id}), nid, conns[id].torrent,
                                  conns[id].since, su, io2))

\* Handler::readable: the connections, the next id, and the Response
HttpReadableRes(conns, nid, id, io, su, io2) ==
    IF id \notin DOMAIN conns THEN SRes(conns, nid, <<>>)
    ELSE ReadableHandled(conns, nid, id, Handle(conns[id].state, "Readable", io), su, io2)

\* The results reported per announce, with those of resp added
Report(e, resp) ==
    [t \in Torrents |->
        e[t] \o IF resp # <<>> /\ resp[1].tid = t THEN <<resp[1].res>> ELSE <<>>]

RECURSIVE ReportAll(_, _)
ReportAll(e, rs) ==
    IF rs = <<>> THEN e ELSE ReportAll(Report(e, <<Head(rs)>>), Tail(rs))

\* The redirect connections per announce, given the ids handed out by a call
Follow(f, torrent, n) == [f EXCEPT ![torrent] = @ + n]

\* The answers a call of readable or writable can tell apart
RWAnswers ==
    {io \in NetAnswers :
        /\ io.dns /\ io.connect /\ io.w[2] = "wait" /\ io.r[2] = "wait"
        /\ io.w[1] # "done" => io.r[1] = "wait"}

\* The answers a call of dns_resolved can tell apart
DnsAnswers ==
    {io \in NetAnswers :
        /\ ~io.dns => io.connect
        /\ ~(io.dns /\ io.connect) => io.w[1] = "wait" /\ io.w[2] = "wait"
        /\ io.w[1] # "wait" => io.w[2] = "wait"
        /\ io.r[1] # "wait" => io.r[2] = "wait"
        /\ io.w[1] = "wait" => io.r[2] = "wait"
        /\ io.w[1] = "err" => io.r[1] = "wait"
        /\ (io.w[1] = "wait" /\ io.w[2] # "done") => io.r[1] = "wait"}

Quiet == [dns |-> TRUE, connect |-> TRUE, w |-> <<"wait", "wait">>, r |-> <<"wait", "wait">>]

\* The ways the set-up of a connection can go
Setups ==
    {c \in [su : SetupAnswers, io : DnsAnswers] :
        /\ c.io.dns
        /\ ~c.su.url => c.su.sock
        /\ ~(c.su.url /\ c.su.sock) => c.su.query = "pending"
        /\ c.su.query # "cached" => c.io = Quiet}

\* The set-up that waits for the resolver
NoSetup == [su |-> [url |-> TRUE, sock |-> TRUE, query |-> "pending"], io |-> Quiet]

HttpInit ==
    /\ connections = NoFiles
    /\ nextId = 1
    /\ resps = <<>>
    /\ announced = [t \in Torrents |-> "none"]
    /\ followed = [t \in Torrents |-> 0]
    /\ ended = [t \in Torrents |-> <<>>]

\* The state of a handler nothing uses
HttpIdle ==
    /\ connections = NoFiles
    /\ nextId = 1
    /\ resps = <<>>
    /\ announced = <<>>
    /\ followed = <<>>
    /\ ended = <<>>

\* The handler takes the result c of setting up the connection of an announce
Announced(tid, c) ==
    /\ connections' = c.conns
    /\ nextId' = c.nid
    /\ announced' = [announced EXCEPT ![tid] = c.result]

\* Handler::new_announce
NewAnnounce(tid, su, io) ==
    /\ announced[tid] = "none"
    /\ nextId <= MaxConns
    /\ IF ~su.url
       THEN Announced(tid, SRes(connections, nextId, "UrlNoHost"))
       ELSE Announced(tid, Connect(connections, nextId, tid, FALSE, 0, su, io))
    /\ resps' = <<>>
    /\ UNCHANGED <<followed, ended, notHttp>>

\* The handler returns from dns_resolved or writable with d
Returned(d) ==
    /\ connections' = d.conns
    /\ resps' = d.resp
    /\ ended' = Report(ended, d.resp)

\* Handler::dns_resolved, called with the answer to the query of id
HttpDnsResolved(id, io) ==
    /\ id \in DOMAIN connections
    /\ connections[id].state = "ResolvingDNS"
    /\ Returned(DnsResolved(connections, id, io))
    /\ UNCHANGED <<nextId, announced, followed, notHttp>>

\* Handler::writable
HttpWritable(id, io) ==
    /\ id \in DOMAIN connections
    /\ Returned(Handled(connections, id, Handle(connections[id].state, "Writable", io)))
    /\ UNCHANGED <<nextId, announced, followed, notHttp>>

\* The handler returns from readable with r
ReturnedReadable(id, r) ==
    /\ connections' = r.conns
    /\ nextId' = r.nid
    /\ resps' = r.result
    /\ ended' = Report(ended, r.result)
    /\ followed' = Follow(followed, connections[id].torrent, r.nid - nextId)

\* Handler::readable, the call leading to the set-up c of a redirect or not
HttpReadable(id, io, c) ==
    /\ id \in DOMAIN connections
    /\ IF Handle(connections[id].state, "Readable", io).res = "Redirect"
       THEN nextId <= MaxConns
       ELSE c = NoSetup
    /\ ReturnedReadable(id, HttpReadableRes(connections, nextId, id, io, c.su, c.io))
    /\ UNCHANGED <<announced, notHttp>>

\* The time between two calls of the handler, when it is not negligible:
\* long enough for a connection left alone to be past the timeout
TimeSteps == {HTTP_TIMEOUT_MS + 1}

\* d ms later, up to the point where the timeout is passed
Elapsed(ms, d) == IF ms + d > HTTP_TIMEOUT_MS THEN HTTP_TIMEOUT_MS + 1 ELSE ms + d

\* Time passes: d ms more since every last_updated and every new_announce
HttpTimePasses(d) ==
    /\ DOMAIN connections # {}
    /\ \E id \in DOMAIN connections : connections[id].age <= HTTP_TIMEOUT_MS
    /\ connections' =
         [id \in DOMAIN connections |->
            [connections[id] EXCEPT
               !.age = Elapsed(@, d), !.since = Elapsed(@, d)]]
    /\ UNCHANGED <<nextId, resps, announced, followed, ended, notHttp>>

\* The connections tick drops, in some order of the retain
RECURSIVE TimedOut(_, _)
TimedOut(conns, ids) ==
    IF ids = {} THEN <<>>
    ELSE LET id == CHOOSE i \in ids : \A j \in ids : i <= j
         IN  <<Response(conns[id].torrent, "Timeout")>> \o TimedOut(conns, ids \ {id})

\* tick's test of a Tracker, had it measured from the dispatch of the announce
Expired_SinceDispatch(trk) == trk.since > HTTP_TIMEOUT_MS

\* tick's test of a Tracker: last_updated.elapsed() > TIMEOUT_MS
Expired(trk) == trk.age > HTTP_TIMEOUT_MS

\* Handler::tick
HttpTick ==
    /\ DOMAIN connections # {}
    /\ LET late == {id \in DOMAIN connections : Expired(connections[id])}
           rs == TimedOut(connections, late)
       IN  /\ connections' = MapRemove(connections, late)
           /\ resps' = rs
           /\ ended' = ReportAll(ended, rs)
    /\ UNCHANGED <<nextId, announced, followed, notHttp>>

HttpNext ==
    \/ \E tid \in Torrents, c \in Setups : NewAnnounce(tid, c.su, c.io)
    \/ \E id \in 1..MaxConns, io \in DnsAnswers : HttpDnsResolved(id, io)
    \/ \E id \in 1..MaxConns, io \in RWAnswers : HttpWritable(id, io)
    \/ \E id \in 1..MaxConns, io \in RWAnswers, c \in Setups : HttpReadable(id, io, c)
    \/ \E d \in TimeSteps : HttpTimePasses(d)
    \/ HttpTick

-----------------------------------------------------------------------------
(* The UDP tracker handler (src/src/tracker/udp/mod.rs) *)

\* Bounds: the announces made, the values random::<u32>() takes
MaxUdpConns == 1
MaxTid == 1

UDP_TIMEOUT_MS == 15000
RETRANS_MS == 5000

\* The transaction ids drawn; 0 stands for an id that is never drawn
Tids == 1..MaxTid

\* The connection ids a tracker hands out
Cids == {7, 9}

\* Ages are followed up to here
AgeCap == UDP_TIMEOUT_MS + 2 * RETRANS_MS

\* An age d ms later, followed up to cap
LaterTo(age, d, cap) == IF age + d > cap THEN cap ELSE age + d

\* An age d ms later
Later(age, d) == LaterTo(age, d, AgeCap)

\* Connection, with the transaction id and connection id written into the
\* data of its state, the time since last_updated and since last_retrans,
\* and (to state the claims) the time since the announce was started and
\* since its state last changed, the connection ids of the connect
\* responses received for its connect request, and what new_announce
\* returned to the one who started it
Connection(torrent, state, tid, cid, upd, ret, born, quiet) ==
    [torrent |-> torrent, state |-> state, tid |-> tid, cid |-> cid,
     upd |-> upd, ret |-> ret, born |-> born, quiet |-> quiet, heard |-> {},
     result |-> "Ok"]

\* A datagram on the wire: its action, length, transaction id and (for a
\* connect request or response, or an announce request) connection id
Dgram(action, len, tid, cid) == [action |-> action, len |-> len, tid |-> tid, cid |-> cid]

\* A datagram the handler sends to the tracker of connection id
Sent(id, conn) ==
    [id |-> id, action |-> IF conn.state = "Connecting" THEN 0 ELSE 1,
     tid |-> conn.tid, cid |-> conn.cid]

\* The handler after a call: connections, transactions, Responses returned,
\* datagrams sent, and whether the call panicked instead of returning
URes(conns, trans, resp, dg) ==
    [conns |-> conns, trans |-> trans, resp |-> resp, sent |-> dg, panic |-> FALSE]

\* Handler::send_data; ok is whether sock.send_to succeeds
SendData(conns, trans, id, ok) ==
    IF conns[id].state = "ResolvingDNS"
    THEN URes(conns, trans, <<>>, <<>>)
    ELSE IF ok
    THEN URes([conns EXCEPT ![id].ret = 0], trans, <<>>, <<Sent(id, conns[id])>>)
    ELSE URes(MapRemove(conns, {id}), trans, <<Response(conns[id].torrent, "SendTo")>>, <<>>)

\* Handler::dns_resolved; res is whether the query succeeded, tid the random
\* transaction id
UdpDnsResolved(conns, trans, id, res, tid, ok) ==
    IF id \in DOMAIN conns /\ conns[id].state = "ResolvingDNS"
    THEN IF res
         THEN SendData([conns EXCEPT ![id].upd = 0, ![id].state = "Connecting",
                                     ![id].tid = tid, ![id].quiet = 0],
                       MapInsert(trans, tid, id), id, ok)
         ELSE URes(MapRemove(conns, {id}), trans, <<Response(conns[id].torrent, "DNS")>>, <<>>)
    ELSE URes(conns, trans, <<>>, <<>>)

\* (process_connect without the check of the state)
ProcessConnectFor_AnyState(conns, trans, id, d, tid, ok) ==
    IF id \in DOMAIN conns
    THEN SendData([conns EXCEPT ![id].state = "Announcing", ![id].upd = 0,
                                ![id].tid = tid, ![id].cid = d.cid, ![id].quiet = 0],
                  MapInsert(trans, tid, id), id, ok)
    ELSE URes(conns, trans, <<>>, <<>>)

\* Handler::process_connect once the transaction is found; trans is the map
\* without it, tid the random transaction id of the announce request
ProcessConnectFor(conns, trans, id, d, tid, ok) ==
    IF id \in DOMAIN conns /\ conns[id].state = "Connecting"
    THEN SendData([conns EXCEPT ![id].state = "Announcing", ![id].upd = 0,
                                ![id].tid = tid, ![id].cid = d.cid, ![id].quiet = 0],
                  MapInsert(trans, tid, id), id, ok)
    ELSE URes(conns, trans, <<>>, <<>>)

\* Handler::process_connect
ProcessConnect(conns, trans, d, tid, ok) ==
    IF d.tid \in DOMAIN trans
    THEN ProcessConnectFor(conns, MapRemove(trans, {d.tid}), trans[d.tid], d, tid, ok)
    ELSE URes(conns, trans, <<>>, <<>>)

\* Handler::process_announce and Handler::process_error once the transaction
\* is found; trans is the map without it
ProcessFinalFor(conns, trans, id, res) ==
    IF id \in DOMAIN conns
    THEN URes(MapRemove(conns, {id}), trans, <<Response(conns[id].torrent, res)>>, <<>>)
    ELSE URes(conns, trans, <<>>, <<>>)

\* (process_announce taking the transaction id for the id of the connection)
ProcessAnnounce_ByConnection(conns, trans, d) ==
    ProcessFinalFor(conns, MapRemove(trans, {d.tid}), d.tid, "Ok")

\* process_announce, the peers: the bytes after the 20 of the header are cut
\* in chunks of 6, the last chunk being what is left, and util::bytes_to_addr
\* indexes p[0..3] and reads a u16 at p[4..] of each
PeersParse(len) == len <= 20 \/ (len - 20) % 6 = 0

\* process_announce once the connection is taken out (u holds its Response):
\* the peers are read, and a chunk that is too short ends the call in a panic
ReadPeers(u, len) ==
    IF u.resp # <<>> /\ ~PeersParse(len)
    THEN [u EXCEPT !.resp = <<>>, !.panic = TRUE]
    ELSE u

\* Handler::process_announce
ProcessAnnounce(conns, trans, d) ==
    IF d.tid \in DOMAIN trans
    THEN ReadPeers(ProcessFinalFor(conns, MapRemove(trans, {d.tid}), trans[d.tid], "Ok"),
                   d.len)
    ELSE URes(conns, trans, <<>>, <<>>)

\* Handler::process_error
ProcessError(conns, trans, d) ==
    IF d.tid \in DOMAIN trans
    THEN ProcessFinalFor(conns, MapRemove(trans, {d.tid}), trans[d.tid], "TrackerError")
    ELSE URes(conns, trans, <<>>, <<>>)

\* Handler::readable for one datagram received
UdpReadableOne(conns, trans, d, tid, ok) ==
    CASE d.action = 0 /\ d.len = 16 -> ProcessConnect(conns, trans, d, tid, ok)
      [] d.action = 1 /\ d.len >= 20 -> ProcessAnnounce(conns, trans, d)
      [] d.action = 3 /\ d.len >= 8 -> ProcessError(conns, trans, d)
      [] OTHER -> URes(conns, trans, <<>>, <<>>)

\* Two results of the handler in a row: the state of the second, the Responses
\* and datagrams of both
UAppend(u, v) == URes(v.conns, v.trans, u.resp \o v.resp, u.sent \o v.sent)

\* (tick measuring from last_retrans)
TimedOutConn_SinceRetrans(conn) == conn.ret > UDP_TIMEOUT_MS

\* Whether tick gives the connection up
TimedOutConn(conn) == conn.upd > UDP_TIMEOUT_MS

\* Handler::tick, the retransmissions: ids are the connections to send to,
\* fail those for which sock.send_to fails
RECURSIVE Retransmit(_, _, _)
Retransmit(u, ids, fail) ==
    IF ids = {} THEN u
    ELSE LET id == CHOOSE i \in ids : \A j \in ids : i <= j
         IN  Retransmit(UAppend(u, SendData(u.conns, u.trans, id, id \notin fail)),
                        ids \ {id}, fail)

\* Handler::tick
UdpTickRes(conns, trans, fail) ==
    Retransmit(
        URes(MapRemove(conns, {id \in DOMAIN conns : TimedOutConn(conns[id])}),
             [t \in {x \in DOMAIN trans :
                       trans[x] \in DOMAIN conns /\ ~TimedOutConn(conns[trans[x]])}
                |-> trans[t]],
             TimedOut(conns, {id \in DOMAIN conns : TimedOutConn(conns[id])}),
             <<>>),
        {id \in DOMAIN conns : ~TimedOutConn(conns[id]) /\ conns[id].ret > RETRANS_MS},
        fail)

\* The datagrams a tracker or anyone else may send to the socket; an announce
\* response may carry a peer (26 bytes) or half a peer (23 bytes)
Dgrams ==
    {d \in [action : {0, 1, 2, 3}, len : {4, 16, 20, 23, 26}, tid : 0..MaxTid, cid : Cids] :
        /\ ~(d.action = 0 /\ d.len = 16) => d.cid = 7
        /\ d.len = 4 => d.tid = 0
        /\ d.action = 2 => d.len = 16
        /\ d.len > 20 => d.action = 1 /\ d.tid # 0}

\* The last call: the handler called, whether the transaction id of the
\* datagram it received was in the transaction map, its Result
ULast(op, known, result) == [op |-> op, known |-> known, result |-> result]

UdpInit ==
    /\ uconnections = NoFiles
    /\ transactions = NoFiles
    /\ conn_count = 0
    /\ uresps = <<>>
    /\ sent = <<>>
    /\ ulast = ULast("new", FALSE, "Ok")
    /\ ticked = TRUE

\* The thread of the handler has not panicked
Running == ulast.result # "Panic"

\* The handler returns from a call with u
UdpReturned(u) ==
    /\ Running
    /\ uconnections' = u.conns
    /\ transactions' = u.trans
    /\ uresps' = u.resp
    /\ sent' = u.sent

\* Handler::new_announce once the connection is inserted (in conns)
UdpQuery(conns, id, query, tid, ok) ==
    IF query = "cached"
    THEN UdpDnsResolved(conns, transactions, id, TRUE, tid, ok)
    ELSE IF query = "err"
    THEN URes([conns EXCEPT ![id].result = "DnsIo"], transactions, <<>>, <<>>)
    ELSE URes(conns, transactions, <<>>, <<>>)

\* The Result of new_announce
UdpAnnounceResult(query, u) ==
    CASE query = "err" -> "DnsIo"
      [] query = "cached" /\ u.resp # <<>> -> "Connection"
      [] OTHER -> "Ok"

\* new_announce takes the result u of its query
UdpAnnounced(query, u) ==
    /\ UdpReturned([u EXCEPT !.resp = <<>>])
    /\ ulast' = ULast("new_announce", FALSE, UdpAnnounceResult(query, u))

\* Handler::new_announce
UdpNewAnnounce(t, url, query, tid, ok) ==
    /\ conn_count < MaxUdpConns
    /\ IF url
       THEN /\ UdpAnnounced(query,
                  UdpQuery(MapInsert(uconnections, conn_count,
                                     Connection(t, "ResolvingDNS", 0, 0, 0, 0, 0, 0)),
                           conn_count, query, tid, ok))
            /\ conn_count' = conn_count + 1
       ELSE /\ Running
            /\ ulast' = ULast("new_announce", FALSE, "UrlNoHost")
            /\ uresps' = <<>>
            /\ sent' = <<>>
            /\ UNCHANGED <<uconnections, transactions, conn_count>>
    /\ UNCHANGED <<ticked, notUdp>>

\* Handler::dns_resolved, called with the answer to the query of id; a query
\* new_query failed to make has no answer
UdpDnsAnswer(id, res, tid, ok) ==
    /\ id \in DOMAIN uconnections
    /\ uconnections[id].state = "ResolvingDNS"
    /\ uconnections[id].result = "Ok"
    /\ UdpReturned(UdpDnsResolved(uconnections, transactions, id, res, tid, ok))
    /\ ulast' = ULast("dns_resolved", FALSE, "Ok")
    /\ UNCHANGED <<conn_count, ticked, notUdp>>

\* The connection waits for the connect response d
Waiting(conn, d) ==
    /\ conn.state = "Connecting"
    /\ conn.tid = d.tid
    /\ d.action = 0 /\ d.len = 16

\* The connections, each having noted the connect response d it waited for
Hear(conns, d) ==
    [id \in DOMAIN conns |->
        IF Waiting(conns[id], d)
        THEN [conns[id] EXCEPT !.heard = @ \cup {d.cid}]
        ELSE conns[id]]

\* Handler::readable, the socket holding the datagram d.  (readable receives
\* until the socket is empty and handles each datagram on its own: a call
\* that finds several is as many calls that find one, but for the Responses
\* being returned together.)
UdpReadable(d, tid, ok) ==
    /\ ~(d.action = 0 /\ d.len = 16 /\ d.tid \in DOMAIN transactions) => tid = 1 /\ ok
    /\ UdpReturned(UdpReadableOne(Hear(uconnections, d), transactions, d, tid, ok))
    /\ ulast' = ULast("readable", d.tid \in DOMAIN transactions,
                      IF UdpReadableOne(Hear(uconnections, d), transactions, d, tid, ok).panic
                      THEN "Panic" ELSE "Ok")
    /\ UNCHANGED <<conn_count, ticked, notUdp>>

\* Handler::tick
UdpTick(fail) ==
    /\ UdpReturned(UdpTickRes(uconnections, transactions, fail))
    /\ ticked' = TRUE
    /\ ulast' = ULast("tick", FALSE, "Ok")
    /\ UNCHANGED <<conn_count, notUdp>>

\* Time passes, by one period of the tick
UdpTimePasses ==
    /\ Running
    /\ ticked
    /\ DOMAIN uconnections # {}
    /\ uconnections' =
         [id \in DOMAIN uconnections |->
            [uconnections[id] EXCEPT !.upd = Later(@, RETRANS_MS),
                                     !.ret = LaterTo(@, RETRANS_MS, 2 * RETRANS_MS),
                                     !.born = Later(@, RETRANS_MS),
                                     !.quiet = Later(@, RETRANS_MS)]]
    /\ ticked' = FALSE
    /\ ulast' = ULast("time", FALSE, "Ok")
    /\ UNCHANGED <<transactions, conn_count, uresps, sent, notUdp>>

UdpNext ==
    \/ \E t \in {1}, url \in BOOLEAN, query \in {"pending", "cached", "err"},
          tid \in Tids, ok \in BOOLEAN : UdpNewAnnounce(t, url, query, tid, ok)
    \/ \E id \in 0..(MaxUdpConns - 1), res \in BOOLEAN, tid \in Tids, ok \in BOOLEAN :
          UdpDnsAnswer(id, res, tid, ok)
    \/ \E d \in Dgrams, tid \in Tids, ok \in BOOLEAN : UdpReadable(d, tid, ok)
    \/ \E fail \in SUBSET (0..(MaxUdpConns - 1)) : UdpTick(fail)
    \/ UdpTimePasses

\* The state of a handler nothing uses
UdpIdle ==
    /\ uconnections = NoFiles
    /\ transactions = NoFiles
    /\ conn_count = 0
    /\ uresps = <<>>
    /\ sent = <<>>
    /\ ulast = ULast("new", FALSE, "Ok")
    /\ ticked = TRUE

-----------------------------------------------------------------------------
(* The torrent: src/src/torrent/mod.rs.  The picker, the choker and the    *)
(* peers' own state are inputs: which peers can take a request, whether a  *)
(* block completes its piece, whether a length is the block's length.      *)

\* Pieces of the torrent
NumPieces == 2

\* Peers that may connect
MaxPeers == 2

\* Validate requests the disk worker has not answered
MaxValidations == 1

Pieces == 1..NumPieces

Peers == 1..MaxPeers

\* Status::stopped
Stopped(status) == status \in {"Paused", "DiskError"}

\* Torrent::complete
Complete(t) == t.pieces = Pieces

\* Torrent::new: the Torrent and what start() sends; val counts the Validate
\* requests not yet answered, excused tells that the user paused or the disk
\* failed since the first of them.  Of a call: rpc, trk, msgs are what it sent
\* to RPC, to the tracker and to the peers, req the peers it sent a Request,
\* wr and rd its disk writes and reads, up and down the blocks it added to
\* uploaded and downloaded, ser whether it serialized.  tracker is the
\* TrackerStatus; tracker_update is None, or Later for Some(end) with end still
\* ahead, or Due for Some(end) with end reached; ann tells that an announce
\* has been sent that the tracker has not answered
New(created) ==
    [tracker |-> "Updating", tracker_update |-> "None", ann |-> TRUE,
     status |-> IF created THEN "Pending" ELSE "DiskError",
     pieces |-> {}, peers |-> {}, dirty |-> FALSE,
     val |-> 0, excused |-> FALSE,
     rpc |-> <<>>, trk |-> <<"started">>, req |-> {}, wr |-> 0, rd |-> 0,
     err |-> FALSE, msgs |-> {}, up |-> 0, down |-> 0, ser |-> FALSE]

\* The Torrent when a call starts: nothing sent yet
Fresh(t) ==
    [t EXCEPT !.rpc = <<>>, !.trk = <<>>, !.req = {}, !.wr = 0, !.rd = 0,
              !.err = FALSE, !.msgs = {}, !.up = 0, !.down = 0, !.ser = FALSE]

\* Torrent::set_status
SetStatus(t, status) ==
    IF t.status = status
    THEN t
    ELSE [t EXCEPT !.status = status,
                   !.rpc = Append(@, [status |-> status,
                                      error |-> status = "DiskError"])]

\* Torrent::set_tracker_response; resp is Ok, Failure (the tracker's own
\* failure reason) or Error (any other error)
SetTrackerResponse(t, resp) ==
    IF resp = "Ok"
    THEN [t EXCEPT !.tracker = "Ok", !.tracker_update = "Later", !.ann = FALSE]
    ELSE [t EXCEPT !.tracker = resp, !.ann = FALSE]

\* Torrent::update_tracker
UpdateTracker(t) ==
    IF t.tracker_update = "Due" THEN [t EXCEPT !.trk = Append(@, "interval")] ELSE t

\* Time passes and Instant::now() reaches the time in tracker_update
IntervalOver(t) ==
    IF t.tracker_update = "Later" THEN [t EXCEPT !.tracker_update = "Due"] ELSE t

\* Torrent::validate
Validate(t) == SetStatus([t EXCEPT !.val = @ + 1], "Validating")

\* (make_requests without the check of the status)
MakeRequests_Always(t, pid, want) ==
    IF pid \in want THEN [t EXCEPT !.req = @ \cup {pid}] ELSE t

\* Torrent::make_requests and make_requests_pid; want holds the peers that
\* can queue a request and for which the picker has a block
MakeRequests(t, pid, want) ==
    IF Stopped(t.status)
    THEN t
    ELSE IF pid \in want THEN [t EXCEPT !.req = @ \cup {pid}] ELSE t

\* Torrent::request_all
RequestAll(t, want) ==
    [t EXCEPT !.req = @ \cup UNION {MakeRequests(t, pid, want).req : pid \in t.peers}]

\* Torrent::pause
Pause(t) ==
    SetStatus([t EXCEPT !.trk = IF t.status = "Paused" THEN @ ELSE Append(@, "stopped"),
                        !.excused = @ \/ t.val > 0],
              "Paused")

\* Torrent::resume, the match on the status
ResumeBranch(t, want) ==
    CASE t.status = "Paused" ->
            RequestAll([t EXCEPT !.trk = Append(@, "started")], want)
      [] t.status = "DiskError" ->
            IF Complete(t)
            THEN Validate(t)
            ELSE SetStatus(RequestAll(t, want), "Idle")
      [] OTHER -> t

\* Torrent::resume, the status set after the match
ResumeEnd(t) ==
    IF Complete(t) THEN SetStatus(t, "Idle") ELSE SetStatus(t, "Pending")

\* Torrent::resume
Resume(t, want) == ResumeEnd(ResumeBranch(t, want))

\* A message of a peer as handle_msg sees it: the piece it names, whether its
\* length is the block's length, whether the block completes the piece; of a
\* Piece, requesters are the peers picker.completed returns, those the block
\* was requested from (picker/tests.rs, test_seq_picker: the one peer that
\* picked a block is the peer reported when it completes), and useless the
\* peers whose bitfield holds no piece the torrent lacks once it has this one
Msg(kind, index, good, done, requesters, useless) ==
    [kind |-> kind, index |-> index, good |-> good, done |-> done,
     requesters |-> requesters, useless |-> useless]

\* A message sent to a peer
ToPeer(pid, kind) == [pid |-> pid, kind |-> kind]

\* handle_msg, Piece: the block goes to the disk
Wrote(t) ==
    [SetStatus(t, "Leeching") EXCEPT !.dirty = TRUE, !.wr = @ + 1, !.down = @ + 1]

\* Torrent::serialize
Serialize(t) == [t EXCEPT !.dirty = FALSE, !.ser = TRUE]

\* handle_msg, Piece: the piece is done (serialize and validate at the last)
Completed(t, index) ==
    IF t.pieces \cup {index} = Pieces
    THEN Validate(Serialize([t EXCEPT !.pieces = @ \cup {index}]))
    ELSE [t EXCEPT !.pieces = @ \cup {index}]

\* handle_msg, Piece: "Mark uninteresting peers", the loop over self.peers
MarkUninteresting(t, useless) ==
    [t EXCEPT !.msgs = @ \cup {ToPeer(q, "Uninterested") : q \in useless \cap t.peers}]

\* (the Cancel sent only when three peers or more were asked for the block)
Cancels_FromThree(t, pid, requesters) ==
    IF Cardinality(requesters) > 2
    THEN [t EXCEPT !.msgs = @ \cup {ToPeer(q, "Cancel") :
                                      q \in (requesters \ {pid}) \cap t.peers}]
    ELSE t

\* handle_msg, Piece: the Cancel to the peers asked for the same block
Cancels(t, pid, requesters) ==
    IF Cardinality(requesters) > 1
    THEN [t EXCEPT !.msgs = @ \cup {ToPeer(q, "Cancel") :
                                      q \in (requesters \ {pid}) \cap t.peers}]
    ELSE t

\* handle_msg, Piece: what follows the write when the piece is done (the Have
\* sent to the leechers is not kept)
PieceDone(t, msg) == MarkUninteresting(Completed(t, msg.index), msg.useless)

\* handle_msg, Piece: more requests to the peer unless complete
AfterPiece(t, pid, want) ==
    IF Complete(t) THEN t ELSE MakeRequests(t, pid, want)

\* handle_msg, Message::Piece
HandlePiece(t, pid, msg, want) ==
    IF msg.index \in t.pieces \/ Stopped(t.status)
    THEN t
    ELSE IF ~msg.good
         THEN [SetStatus(t, "Leeching") EXCEPT !.err = TRUE]
         ELSE AfterPiece(Cancels(IF msg.done THEN PieceDone(Wrote(t), msg) ELSE Wrote(t),
                                 pid, msg.requesters),
                         pid, want)

\* handle_msg, Message::Request
HandleRequest(t, msg) ==
    IF ~Stopped(t.status) /\ t.status # "Leeching"
    THEN IF msg.good
         THEN [SetStatus(t, "Seeding") EXCEPT !.rd = @ + 1]
         ELSE [SetStatus(t, "Seeding") EXCEPT !.err = TRUE]
    ELSE t

\* Torrent::handle_msg
HandleMsg(t, pid, msg, want) ==
    CASE msg.kind = "Unchoke" -> MakeRequests(t, pid, want)
      [] msg.kind = "Piece" -> HandlePiece(t, pid, msg, want)
      [] msg.kind = "Request" -> HandleRequest(t, msg)
      [] OTHER -> t

\* Torrent::peer_ev: self.peers.remove(&pid)
Taken(t, pid) == [t EXCEPT !.peers = @ \ {pid}]

\* Torrent::peer_ev: the peer is inserted again unless the message gave an Err
PutBack(t, pid) == IF t.err THEN t ELSE [t EXCEPT !.peers = @ \cup {pid}]

\* Torrent::peer_ev; the kind Closed is an event that is no message.  The
\* peer is out of self.peers while handle_msg runs.
PeerEv(t, pid, msg, want) ==
    IF pid \notin t.peers
    THEN [t EXCEPT !.err = TRUE]
    ELSE IF msg.kind = "Closed"
         THEN [Taken(t, pid) EXCEPT !.err = TRUE]
         ELSE PutBack(HandleMsg(Taken(t, pid), pid, msg, want), pid)

\* A response of the disk worker: the peer of a Read, the invalid pieces of a
\* ValidationComplete, whether an Error ends a validation
Resp(kind, pid, invalid, ends) ==
    [kind |-> kind, pid |-> pid, invalid |-> invalid, ends |-> ends]

\* One Validate request is answered
Answered(t) == [t EXCEPT !.val = @ - 1, !.excused = @ /\ t.val > 1]

\* handle_disk_resp, ValidationComplete
ValidationComplete(t, invalid, want) ==
    IF invalid = {}
    THEN [(IF Stopped(t.status) THEN t ELSE SetStatus(t, "Idle"))
             EXCEPT !.trk = Append(@, "completed")]
    ELSE RequestAll(t, want)

\* handle_disk_resp, Read: the block is sent to the peer
Uploaded(t, pid) ==
    [t EXCEPT !.dirty = TRUE, !.up = @ + 1, !.msgs = @ \cup {ToPeer(pid, "Piece")}]

\* (handle_disk_resp, Read, without the lookup of the peer)
ReadDone_AnyPeer(t, pid) == Uploaded(t, pid)

\* handle_disk_resp, Read
ReadDone(t, pid) == IF pid \in t.peers THEN Uploaded(t, pid) ELSE t

\* Torrent::handle_disk_resp
HandleDiskResp(t, resp, want) ==
    CASE resp.kind = "Read" -> ReadDone(t, resp.pid)
      [] resp.kind = "ValidationComplete" ->
            ValidationComplete(Answered(t), resp.invalid, want)
      [] OTHER ->
            SetStatus(IF resp.ends THEN Answered(t)
                      ELSE [t EXCEPT !.excused = @ \/ t.val > 0],
                      "DiskError")

\* Torrent::rpc_update, the status asked for
RpcUpdate(t, status, want) ==
    CASE status = "Paused" /\ t.status = "Paused" -> Resume(t, want)
      [] status = "Paused" -> Pause(t)
      [] status = "Hashing" /\ t.status = "Validating" -> t
      [] status = "Hashing" -> Validate(t)
      [] OTHER -> t

\* No message
NoEv == Msg("None", 0, FALSE, FALSE, {}, {})

\* Messages of a peer
Msgs ==
    {Msg(kind, 1, TRUE, FALSE, {}, {}) : kind \in {"Unchoke", "Have", "Closed"}}
    \cup {Msg("Piece", index, TRUE, done, {}, {}) : index \in Pieces, done \in BOOLEAN}
    \cup {Msg("Piece", index, FALSE, FALSE, {}, {}) : index \in Pieces}
    \cup {Msg("Request", 1, good, FALSE, {}, {}) : good \in BOOLEAN}

\* The blocks the peer pid delivers in the endgame while the peers conns are
\* connected: Pieces of the right length, with the peers the block was
\* requested from (none, pid alone, pid and others, another peer alone) and
\* the peers left with no piece of use (none, pid alone, all)
BlockMsgs(pid, conns) ==
    {Msg("Piece", index, TRUE, done, requesters, useless) :
        index \in Pieces, done \in BOOLEAN,
        requesters \in {{}, {pid}, conns} \cup {{q} : q \in conns} \cup {{pid, q} : q \in conns},
        useless \in {{}, {pid}, conns}}

\* The peers that can take a request: none or all
Wants == {{}, Peers}

\* Responses of the disk worker
Resps ==
    {Resp("Read", pid, {}, FALSE) : pid \in Peers}
    \cup {Resp("ValidationComplete", 1, invalid, FALSE) :
            invalid \in {{}, {1}, Pieces}}
    \cup {Resp("Error", 1, {}, ends) : ends \in BOOLEAN}

TorrentInit ==
    /\ \E created \in BOOLEAN : tor = New(created)
    /\ tlast = [op |-> "new", was |-> tor.status, kind |-> "new",
                pid |-> 0, pieces |-> {}, msg |-> NoEv]

\* A call leaves the Torrent t; pid is the peer and pieces the pieces that the
\* call names (0 and {} when it names none)
Called(t, op, kind, pid, pieces) ==
    /\ t.val <= MaxValidations
    /\ tor' = [t EXCEPT !.ann = @ \/ t.trk # <<>>]
    /\ tlast' = [op |-> op, was |-> tor.status, kind |-> kind,
                 pid |-> pid, pieces |-> pieces, msg |-> NoEv]
    /\ UNCHANGED notTorrent

\* Torrent::add_peer
TorrentAddPeer(pid) ==
    /\ pid \notin tor.peers
    /\ Called([Fresh(tor) EXCEPT !.peers = @ \cup {pid}], "add_peer", "add_peer",
              pid, {})

\* Torrent::peer_ev
TorrentPeerEv(pid, msg, want) ==
    /\ pid \in tor.peers
    /\ msg.kind \notin {"Unchoke", "Piece"} => want = {}
    /\ msg.requesters \subseteq tor.peers
    /\ msg.useless \subseteq tor.peers
    /\ msg.done \/ msg.useless = {}
    /\ PeerEv(Fresh(tor), pid, msg, want).val <= MaxValidations
    /\ tor' = PeerEv(Fresh(tor), pid, msg, want)
    /\ tlast' = [op |-> "peer_ev", was |-> tor.status, kind |-> msg.kind,
                 pid |-> pid, pieces |-> {msg.index}, msg |-> msg]
    /\ UNCHANGED notTorrent

\* Torrent::handle_disk_resp
TorrentDiskResp(resp, want) ==
    /\ (resp.kind = "ValidationComplete" \/ resp.ends) => tor.val > 0
    /\ resp.invalid = {} => want = {}
    /\ Called(HandleDiskResp(Fresh(tor), resp, want), "disk_resp", resp.kind,
              resp.pid, resp.invalid)

\* Torrent::rpc_update
TorrentRpcUpdate(status, want) ==
    /\ status \in {"Paused", "Hashing"}
    /\ Called(RpcUpdate(Fresh(tor), status, want), "rpc_update", status, 0, {})

\* Torrent::resume
TorrentResume(want) ==
    /\ want \in Wants
    /\ Called(Resume(Fresh(tor), want), "resume", "resume", 0, {})

\* Torrent::serialize, called by the control loop for a dirty torrent
TorrentSerialize ==
    /\ tor.dirty
    /\ Called(Serialize(Fresh(tor)), "serialize", "serialize", 0, {})

\* Torrent::set_tracker_response: the tracker answers an announce
TorrentTrackerResponse(resp) ==
    /\ tor.ann
    /\ Called(SetTrackerResponse(Fresh(tor), resp), "set_tracker_response", resp, 0, {})

\* Torrent::update_tracker, called by the control loop
TorrentUpdateTracker ==
    /\ tlast.op # "update_tracker" \/ tor.tracker_update = "Due"
    /\ Called(UpdateTracker(Fresh(tor)), "update_tracker", "update_tracker", 0, {})

\* Time passes
TorrentTimePasses ==
    /\ tor.tracker_update = "Later"
    /\ tor' = IntervalOver(tor)
    /\ UNCHANGED <<tlast, notTorrent>>

TorrentNext ==
    \/ \E pid \in Peers : TorrentAddPeer(pid)
    \/ \E pid \in Peers, msg \in Msgs :
          \E want \in {{}, {pid}} : TorrentPeerEv(pid, msg, want)
    \/ \E resp \in Resps, want \in Wants : TorrentDiskResp(resp, want)
    \/ \E status \in {"Paused", "Hashing"}, want \in Wants :
          TorrentRpcUpdate(status, want)
    \/ \E want \in Wants : TorrentResume(want)
    \/ TorrentSerialize

\* The torrent in the endgame: peers connect and deliver blocks
BlocksNext ==
    \/ \E pid \in Peers : TorrentAddPeer(pid)
    \/ \E pid \in Peers :
          \E msg \in BlockMsgs(pid, tor.peers) : TorrentPeerEv(pid, msg, {pid})

\* The torrent and its tracker: the calls that send an announce or handle its
\* answer.  They leave the peers and the pieces alone, and the messages of the
\* peers leave the tracker's status alone.
AnnounceNext ==
    \/ \E resp \in {"Ok", "Failure", "Error"} : TorrentTrackerResponse(resp)
    \/ TorrentUpdateTracker
    \/ TorrentTimePasses
    \/ \E resp \in Resps, want \in Wants : TorrentDiskResp(resp, want)
    \/ \E status \in {"Paused", "Hashing"}, want \in Wants :
          TorrentRpcUpdate(status, want)
    \/ \E want \in Wants : TorrentResume(want)

\* The Torrent at rest
TorrentIdle ==
    /\ tor = New(TRUE)
    /\ tlast = [op |-> "new", was |-> "Pending", kind |-> "new",
                pid |-> 0, pieces |-> {}, msg |-> NoEv]

-----------------------------------------------------------------------------
(* The reader of an HTTP response (src/src/tracker/http/reader.rs) *)

\* Bound: the bytes of a body
MaxBody == 3

\* Reader::new: data: vec![0; 75]
ReaderDataLen == 75

\* (self.idx as f32 * 1.5) as usize
NewLen(idx) == (3 * idx) \div 2

\* redirect_codes
RedirectCodes == {301, 302, 303, 307, 308}

\* The header of a response as the parser sees it: the status code, then
\* what the header lines hold (5 nothing of interest, 6 a Location, 7 a byte
\* no header may hold), filling bytes (1) and the end of the header (2)
HeaderBytes(code, line, hl) ==
    [i \in 1..hl |-> IF i = 1 THEN code ELSE IF i = 2 THEN line
                     ELSE IF i = hl THEN 2 ELSE 1]

\* The body: bl bytes, each different from the others and from the header's
BodyBytes(bl) == [i \in 1..bl |-> 10 + i]

\* The bytes of a response on the wire
ResponseWire(resp) == HeaderBytes(resp.code, resp.line, resp.hl) \o BodyBytes(resp.bl)

\* The header lengths tried: short, and around the lengths data takes
HeaderLens ==
    {3, ReaderDataLen - 1, ReaderDataLen, NewLen(ReaderDataLen) - 1}

\* The responses a tracker sends
Responses ==
    {resp \in [code : {200, 302}, line : {5, 6, 7}, hl : HeaderLens, bl : 0..MaxBody] :
        /\ resp.code = 200 => resp.line # 6
        /\ resp.line # 5 => resp.hl = 3 /\ resp.bl = 0}

\* The points of a response at which its arrival is cut
Cuts(resp) ==
    {n \in {1, resp.hl - 1, resp.hl, resp.hl + 1, ReaderDataLen, resp.hl + resp.bl} :
        n >= 1 /\ n <= resp.hl + resp.bl}

\* httparse::Response::parse on the bytes read so far
Parse(bytes) ==
    IF Len(bytes) >= 2 /\ bytes[2] = 7 THEN [tag |-> "Err", i |-> 0]
    ELSE IF \E i \in 1..Len(bytes) : bytes[i] = 2
    THEN [tag |-> "Complete", i |-> CHOOSE i \in 1..Len(bytes) : bytes[i] = 2]
    ELSE [tag |-> "Partial", i |-> 0]

\* Reader::new
NewRespReader == [data |-> Zeros(ReaderDataLen), idx |-> 0, state |-> "Header"]

\* ReadRes, and the Err of a Result<ReadRes>
ReadRes(tag, data) == [tag |-> tag, data |-> data]

\* What process_data and readable hand back: the Reader, the result (tag
\* "Go" when the loop of readable goes on), the bytes left at the socket
PRes(r, res, rest) == [r |-> r, res |-> res, rest |-> rest]

\* process_data once the header is complete at i: the body is split off
SplitOff(r, i) ==
    [r EXCEPT !.data = SubSeq(r.data, i + 1, Len(r.data)),
              !.idx = r.idx - i,
              !.state = "Body"]

\* process_data in state Header, given what the parser says
HeaderParsed(r, p, rest) ==
    CASE p.tag = "Err" -> PRes(r, ReadRes("Err", "MalformedHttp"), rest)
      [] p.tag = "Partial" -> PRes(r, ReadRes("Go", <<>>), rest)
      [] r.data[1] \in RedirectCodes ->
           PRes(r, IF r.data[2] = 6 THEN ReadRes("Redirect", <<>>)
                   ELSE ReadRes("Err", "RedirectNoLocation"), rest)
      [] OTHER -> PRes(SplitOff(r, p.i), ReadRes("Go", <<>>), rest)

\* Reader::process_data
ProcessData(r, rest) ==
    IF r.state = "Header"
    THEN HeaderParsed(r, Parse(SubSeq(r.data, 1, r.idx)), rest)
    ELSE PRes(r, ReadRes("Go", <<>>), rest)

\* One read() of the socket into a buffer of n bytes: k bytes have arrived
\* and are unread; with none left, a connection that has ended says how
SockRead(n, k, end) ==
    IF k > 0 \/ end = "open" THEN Aread(n, k)
    ELSE IF end = "eof" \/ n = 0 THEN [tag |-> "EOF", a |-> 0]
    ELSE [tag |-> "Err", a |-> 0]

\* data with the first a bytes of avail read in at idx
ReadIn(data, idx, avail, a) ==
    [j \in 1..Len(data) |-> IF j > idx /\ j <= idx + a THEN avail[j - idx] ELSE data[j]]

\* Vec::resize(new_len, 0)
Resize(data, new_len) ==
    [j \in 1..new_len |-> IF j <= Len(data) THEN data[j] ELSE 0]

\* readable, IOR::Complete, up to process_data
ReadComplete(r, avail) ==
    [r EXCEPT !.data = Resize(ReadIn(r.data, r.idx, avail, Len(r.data) - r.idx),
                              NewLen(Len(r.data))),
              !.idx = Len(r.data)]

\* readable, IOR::Incomplete(a), up to process_data
ReadIncomplete(r, avail, a) ==
    [r EXCEPT !.data = ReadIn(r.data, r.idx, avail, a), !.idx = r.idx + a]

\* readable at IOR::EOF, and at an IOR::Err of kind UnexpectedEof, with the
\* error err it returns from state Header
ReadEnd(r, err, rest) ==
    IF r.state = "Body"
    THEN PRes([r EXCEPT !.data = <<>>], ReadRes("Done", SubSeq(r.data, 1, r.idx)), rest)
    ELSE PRes(r, ReadRes("Err", err), rest)

\* avail without its first n bytes
Unread(avail, n) == SubSeq(avail, n + 1, Len(avail))

\* Reader::readable: the loop, with avail the bytes at the socket
RECURSIVE ReadableLoop(_, _, _)
\* the loop after process_data has returned pd
AfterProcess(pd, end) ==
    IF pd.res.tag # "Go" THEN pd ELSE ReadableLoop(pd.r, pd.rest, end)

\* the loop once aread has returned io
AfterRead(r, avail, end, io) ==
    CASE io.tag = "Complete" ->
           AfterProcess(ProcessData(ReadComplete(r, avail), Unread(avail, io.a)), end)
      [] io.tag = "Incomplete" ->
           AfterProcess(ProcessData(ReadIncomplete(r, avail, io.a), Unread(avail, io.a)), end)
      [] io.tag = "Blocked" -> PRes(r, ReadRes("None", <<>>), avail)
      [] io.tag = "EOF" -> ReadEnd(r, "Eof", avail)
      [] OTHER -> IF end = "unexpected" THEN ReadEnd(r, "Read", avail)
                  ELSE PRes(r, ReadRes("Err", "Read"), avail)

ReadableLoop(r, avail, end) ==
    AfterRead(r, avail, end, SockRead(Len(r.data) - r.idx, Len(avail), end))

RespInit ==
    /\ hresp \in Responses
    /\ harrived = 0
    /\ htaken = 0
    /\ hend = "open"
    /\ hreader = NewRespReader
    /\ hres = ReadRes("New", <<>>)

\* The state of a reader nothing uses
RespIdle ==
    /\ hresp = [code |-> 200, line |-> 5, hl |-> 3, bl |-> 0]
    /\ harrived = 0
    /\ htaken = 0
    /\ hend = "open"
    /\ hreader = NewRespReader
    /\ hres = ReadRes("New", <<>>)

\* The handler still holds the Reader: no call has returned Done, Redirect
\* or an error
Reading == hres.tag \in {"New", "None"}

\* More of the response arrives: n bytes of it are there now
RespArrives(n) ==
    /\ Reading
    /\ hend = "open"
    /\ n > harrived
    /\ harrived' = n
    /\ UNCHANGED <<hresp, htaken, hend, hreader, hres, notResp>>

\* The connection ends: a FIN, a TLS stream cut without close_notify, a reset
RespEnds(how) ==
    /\ Reading
    /\ hend = "open"
    /\ hend' = how
    /\ UNCHANGED <<hresp, harrived, htaken, hreader, hres, notResp>>

\* readable has returned pd
RespReturned(pd) ==
    /\ hreader' = pd.r
    /\ hres' = pd.res
    /\ htaken' = harrived - Len(pd.rest)

\* Reader::readable, called when the socket has bytes or has ended
RespReadable ==
    /\ Reading
    /\ harrived > htaken \/ hend # "open"
    /\ RespReturned(ReadableLoop(hreader, SubSeq(ResponseWire(hresp), htaken + 1, harrived), hend))
    /\ UNCHANGED <<hresp, harrived, hend, notResp>>

RespNext ==
    \/ \E n \in Cuts(hresp) : RespArrives(n)
    \/ \E how \in {"eof", "unexpected", "reset"} : RespEnds(how)
    \/ RespReadable

-----------------------------------------------------------------------------
(* The file cache with the contents of its files (src/src/disk/cache.rs,
   src/src/util/native.rs) *)

\* Bounds: the length of a file (the size every write of it requests), the
\* values of the bytes written
MaxFileLen == 2
MaxByte == 2

\* The paths used, with max_size 1 or 2: path 1 is written and read, path 2
\* is there from the start and is only read, which takes its entry's place
FilePaths == {1, 2}
WrittenPaths == {1}

\* The buffers written: n bytes of one value
Bufs(n) == {[i \in 1..n |-> b] : b \in 1..MaxByte}

\* File::set_len
SetLen(c, size) == [i \in 1..size |-> IF i <= Len(c) THEN c[i] ELSE 0]

\* native::fallocate: fallocate(2) of mode 0 makes the file at least len
\* long; where it is not supported the file is set to len; an error is left
Fallocate(c, len, answer) ==
    CASE answer = "ok" -> IF Len(c) >= len THEN c ELSE SetLen(c, len)
      [] answer = "unsupported" -> SetLen(c, len)
      [] OTHER -> c

\* seek(SeekFrom::Start(offset)) and write_all(buf), had nothing been sought
SeekWrite_NoSeek(c, offset, buf) == c \o buf

\* seek(SeekFrom::Start(offset)) and write_all(buf)
SeekWrite(c, offset, buf) ==
    [i \in 1..(IF Len(c) > offset + Len(buf) THEN Len(c) ELSE offset + Len(buf)) |->
        IF i > offset /\ i <= offset + Len(buf) THEN buf[i - offset]
        ELSE IF i <= Len(c) THEN c[i] ELSE 0]

\* seek(SeekFrom::Start(offset)) and read_exact of n bytes
SeekRead(c, offset, n) ==
    IF offset + n <= Len(c)
    THEN [ok |-> TRUE, data |-> SubSeq(c, offset + 1, offset + n)]
    ELSE [ok |-> FALSE, data |-> <<>>]

\* The bytes of the file at path, none when there is no such file
BytesOf(dk, path) == IF path \in DOMAIN dk THEN dk[path] ELSE <<>>

\* What ensure_exists does to the file it opens in Mode::ReadWrite(size)
Opened(c, mode, size, io) ==
    IF mode = "WithoutFallocate" THEN SetLen(c, size)
    ELSE IF Len(c) # size THEN Fallocate(c, size, io.falloc)
    ELSE c

\* The file system after ensure_exists
Prepared(fs, dk, path, mode, size, io) ==
    IF mode = "ReadOnly" THEN dk
    ELSE IF path \in DOMAIN fs /\ fs[path].state = "ReadWrite"
    THEN IF mode = "WithFallocate" /\ fs[path].sparse /\ ~fs[path].alloc_failed /\ io.create
         THEN MapInsert(dk, path, Fallocate(dk[path], size, io.falloc))
         ELSE dk
    ELSE IF io.create
    THEN MapInsert(dk, path, Opened(BytesOf(dk, path), mode, size, io))
    ELSE dk

\* The answers of the file system to a call for path, given its files
FileAnswers(fs, dk, path, mode) ==
    {io \in AnswersFor(fs, path, mode) :
        (mode = "WithFallocate" /\ io.create
         /\ ~(path \in DOMAIN fs /\ fs[path].state = "ReadWrite"))
           => io.sameLen = (Len(BytesOf(dk, path)) = MaxFileLen)}

FLast(op, path, offset, buf, ok, data) ==
    [op |-> op, path |-> path, offset |-> offset, buf |-> buf, ok |-> ok, data |-> data]

\* Nothing written yet
NoneWritten == [p \in FilePaths |-> Zeros(MaxFileLen)]

FilesInit ==
    /\ fcache = NoFiles
    /\ fmax \in {1, 2}
    /\ fdisk = [p \in {2} |-> [i \in 1..MaxFileLen |-> MaxByte + 1]]
    /\ fwritten = NoneWritten
    /\ flast = FLast("new", 0, 0, <<>>, TRUE, <<>>)

\* The state of a cache nothing uses
FilesIdle ==
    /\ fcache = NoFiles
    /\ fmax = 1
    /\ fdisk = <<>>
    /\ fwritten = <<>>
    /\ flast = FLast("new", 0, 0, <<>>, TRUE, <<>>)

\* write_file_range once ensure_exists has returned res, the files being dk
Written(res, dk, path, offset, buf) ==
    /\ fcache' = res.files
    /\ fdisk' = IF res.ok THEN MapInsert(dk, path, SeekWrite(dk[path], offset, buf)) ELSE dk
    /\ fwritten' =
         IF res.ok
         THEN [fwritten EXCEPT ![path] = SeekWrite(@, offset, buf)]
         ELSE fwritten
    /\ flast' = FLast("write", path, offset, buf, res.ok, <<>>)

\* FileCache::write_file_range
FilesWrite(path, mode, offset, buf) ==
    /\ \E io \in FileAnswers(fcache, fdisk, path, mode),
          victim \in Victims(SweptMap(fcache, path, mode)) :
         Written(EnsureExists(fcache, fmax, DOMAIN fdisk, path, mode, io, victim),
                 Prepared(fcache, fdisk, path, mode, MaxFileLen, io),
                 path, offset, buf)
    /\ UNCHANGED <<fmax, notFiles>>

\* read_file_range once ensure_exists has returned res
WasRead(res, path, offset, n) ==
    /\ fcache' = res.files
    /\ flast' =
         IF res.ok /\ path \in DOMAIN res.files
         THEN FLast("read", path, offset, Zeros(n),
                    SeekRead(fdisk[path], offset, n).ok, SeekRead(fdisk[path], offset, n).data)
         ELSE FLast("read", path, offset, Zeros(n), FALSE, <<>>)

\* FileCache::read_file_range
FilesRead(path, offset, n) ==
    /\ \E victim \in Victims(fcache) :
         WasRead(EnsureExists(fcache, fmax, DOMAIN fdisk, path, "ReadOnly",
                              [create |-> FALSE, sameLen |-> TRUE, falloc |-> "ok",
                               sparse |-> FALSE], victim),
                 path, offset, n)
    /\ UNCHANGED <<fmax, fdisk, fwritten, notFiles>>

\* FileCache::remove_file
FilesRemove(path) ==
    /\ path \in DOMAIN fcache
    /\ fcache' = MapRemove(fcache, {path})
    /\ flast' = FLast("remove", path, 0, <<>>, TRUE, <<>>)
    /\ UNCHANGED <<fmax, fdisk, fwritten, notFiles>>

FilesNext ==
    \/ \E path \in WrittenPaths, mode \in Modes \ {"ReadOnly"}, offset \in 0..(MaxFileLen - 1) :
         \E n \in 1..(MaxFileLen - offset) :
            \E buf \in Bufs(n) : FilesWrite(path, mode, offset, buf)
    \/ \E path \in FilePaths, offset \in 0..(MaxFileLen - 1) :
         \E n \in 1..(MaxFileLen - offset) : FilesRead(path, offset, n)
    \/ \E path \in FilePaths : FilesRemove(path)

-----------------------------------------------------------------------------
(* The piece picker.  Its implementation is not part of the sources at hand:
   it is modelled on the operations and policies the specification gives it
   and on src/src/torrent/picker/tests.rs; the torrent calls it in
   src/src/torrent/mod.rs *)

\* Bound: the pieces of the torrent
MaxPieces == 2

PickerPieces == 0..(MaxPieces - 1)

\* The offsets of the blocks of a piece, in blocks
BlockOffsets == {0, 1}

\* Block::new(index, offset)
Block(index, offset) == <<index, offset>>

BlocksOf(index) == {Block(index, o) : o \in BlockOffsets}

\* A pick that finds nothing
NoBlock == <<>>

\* A block pick may return: neither possessed nor requested already
Free(p, b) == b \notin p.done /\ b \notin p.waiting

\* The pieces pick may choose from for a peer with pieces bits
Candidates(p, bits) == {i \in bits : \E b \in BlocksOf(i) : Free(p, b)}

\* The first block of piece i not yet requested
FirstFree(p, i) ==
    Block(i, CHOOSE o \in BlockOffsets :
                /\ Free(p, Block(i, o))
                /\ \A o2 \in BlockOffsets : Free(p, Block(i, o2)) => o <= o2)

\* The peers that have piece i
Availability(i, allbits) == Cardinality({q \in DOMAIN allbits : i \in allbits[q]})

\* Sequential policy: ascending (piece, offset) among the pieces the peer has
SequentialPieces(p, bits) ==
    {i \in Candidates(p, bits) : \A j \in Candidates(p, bits) : i <= j}

\* Rarest-first policy: any of the candidates fewest peers have
RarestPieces(p, bits, allbits) ==
    {i \in Candidates(p, bits) :
        \A j \in Candidates(p, bits) : Availability(i, allbits) <= Availability(j, allbits)}

\* Picker::pick: the blocks it may return to the peer with pieces bits
Picks(p, bits, allbits) ==
    IF Candidates(p, bits) = {} THEN {NoBlock}
    ELSE {FirstFree(p, i) :
            i \in IF p.sequential THEN SequentialPieces(p, bits)
                  ELSE RarestPieces(p, bits, allbits)}

\* The picker once pick has returned b: the block waits for the peer
Picked(p, b) == IF b = NoBlock THEN p ELSE [p EXCEPT !.waiting = @ \cup {b}]

\* Picker::completed
BlockCompleted(p, b) == [p EXCEPT !.done = @ \cup {b}, !.waiting = @ \ {b}]

\* Picker::invalidate_piece
InvalidatePiece(p, i) ==
    [p EXCEPT !.done = @ \ BlocksOf(i), !.waiting = @ \ BlocksOf(i)]

\* handle_disk_resp, had it left the invalid piece alone
Redownload_Skipped(p, piece) == p

\* handle_disk_resp with one piece invalid: self.picker.invalidate_piece(piece)
Redownload(p, piece) == InvalidatePiece(p, piece)

\* Picker::new_sequential, Picker::new_rarest with an empty Bitfield
NewPicker(sequential) == [sequential |-> sequential, done |-> {}, waiting |-> {}]

PLast(op, piece, res, prev) == [op |-> op, piece |-> piece, res |-> res, prev |-> prev]

PickerInit ==
    /\ pk \in {NewPicker(s) : s \in BOOLEAN}
    /\ pbits \in [{1, 2} -> SUBSET PickerPieces]
    /\ pbits[1] # {}
    /\ plast = PLast("new", 0, NoBlock, "new")

\* The state of a picker nothing uses
PickerIdle ==
    /\ pk = NewPicker(TRUE)
    /\ pbits = <<>>
    /\ plast = PLast("new", 0, NoBlock, "new")

\* Picker::pick for peer 1
PickerPick(b) ==
    /\ b \in Picks(pk, pbits[1], pbits)
    /\ pk' = Picked(pk, b)
    /\ plast' = PLast("pick", 0, b, plast.op)
    /\ UNCHANGED <<pbits, notPicker>>

\* Picker::completed: the peer has delivered a block asked of it
PickerCompleted(b) ==
    /\ b \in pk.waiting
    /\ pk' = BlockCompleted(pk, b)
    /\ plast' = PLast("completed", b[1], b, plast.op)
    /\ UNCHANGED <<pbits, notPicker>>

\* handle_disk_resp, ValidationComplete with piece i invalid: a piece that
\* was downloaded whole has failed its hash check
PickerInvalidate(i) ==
    /\ BlocksOf(i) \subseteq pk.done
    /\ pk' = Redownload(pk, i)
    /\ plast' = PLast("invalidate", i, NoBlock, plast.op)
    /\ UNCHANGED <<pbits, notPicker>>

PickerNext ==
    \/ \E i \in PickerPieces, o \in BlockOffsets : PickerPick(Block(i, o))
    \/ PickerPick(NoBlock)
    \/ \E i \in PickerPieces, o \in BlockOffsets : PickerCompleted(Block(i, o))
    \/ \E i \in PickerPieces : PickerInvalidate(i)

-----------------------------------------------------------------------------
(* The persisted session (src/session/src/lib.rs).  A session is written with
   bincode::serialize and read back by load, which tries the formats from the
   newest to the oldest.  bincode writes no field names and no version: an
   integer is its little-endian bytes, a bool and the tag of an Option one
   byte that is 0 or 1, a string or sequence a u64 length and the elements,
   a fixed array its elements, a unit variant of an enum its u32 index, a
   struct its fields in order.  A value of an integer field is kept as its
   bytes. *)

\* Bound: the pieces of a torrent that has few of them
FewPieces == 2

\* Bound: the trackers a session lists
MaxTrackers == 1

\* The little-endian bytes of n < 2^31 in a field of w bytes
BinLE(n, w) ==
    [i \in 1..w |-> IF i = 1 THEN n % 256
                    ELSE IF i = 2 THEN (n \div 256) % 256
                    ELSE IF i = 3 THEN (n \div 65536) % 256
                    ELSE IF i = 4 THEN (n \div 16777216) % 256
                    ELSE 0]

\* The number little-endian bytes stand for; -1 for one of 2^24 or more, which
\* as a length or a variant index no input here can satisfy
BinNum(bs) ==
    IF \E i \in 4..Len(bs) : bs[i] # 0 THEN -1
    ELSE bs[1] + 256 * bs[2] + 65536 * bs[3]

\* The types of the fields: serde's data model as bincode lays it out
TInt(w) == <<"int", w>>
TBool == <<"bool">>
TStr == <<"str">>
TBytes == <<"bytes">>
TDate == <<"date">>
TArr(n) == <<"arr", n>>
TEnum(k) == <<"enum", k>>
TOpt(t) == <<"opt", t>>
TVec(t) == <<"vec", t>>
TStruct(fs) == <<"struct", fs>>

\* chrono writes a DateTime<Utc> as an RFC 3339 string and parses it back:
\* "1999-12-31T23:59:59Z", as in VER_FA1B6F_SESSION_SERIALIZATION
Created == <<49, 57, 57, 57, 45, 49, 50, 45, 51, 49, 84, 50, 51, 58, 53, 57, 58, 53, 57, 90>>

ValidDate(s) == s = Created

\* A String is UTF-8: of the bytes used here the ASCII ones are
ValidUtf8(s) == \A i \in 1..Len(s) : s[i] < 128

RECURSIVE BinSerialize(_, _), BinSerializeFields(_, _, _), BinSerializeAll(_, _, _)

\* bincode::serialize of value v of type t
BinSerialize(t, v) ==
    CASE t[1] \in {"int", "arr"} -> v
      [] t[1] = "bool" -> <<IF v THEN 1 ELSE 0>>
      [] t[1] = "enum" -> BinLE(v, 4)
      [] t[1] \in {"str", "bytes", "date"} -> BinLE(Len(v), 8) \o v
      [] t[1] = "opt" -> IF v = <<>> THEN <<0>> ELSE <<1>> \o BinSerialize(t[2], v[1])
      [] t[1] = "vec" -> BinLE(Len(v), 8) \o BinSerializeAll(t[2], v, 1)
      [] t[1] = "struct" -> BinSerializeFields(t[2], v, 1)

BinSerializeAll(t, vs, i) ==
    IF i > Len(vs) THEN <<>> ELSE BinSerialize(t, vs[i]) \o BinSerializeAll(t, vs, i + 1)

BinSerializeFields(fs, v, i) ==
    IF i > Len(fs) THEN <<>>
    ELSE BinSerialize(fs[i][2], v[fs[i][1]]) \o BinSerializeFields(fs, v, i + 1)

\* The result of reading a value at offset p: whether it was read, the value,
\* the offset after it
DRes(ok, v, p) == [ok |-> ok, v |-> v, p |-> p]

DFail == DRes(FALSE, <<>>, 0)

DSome(r) == IF r.ok THEN DRes(TRUE, <<r.v>>, r.p) ELSE DFail

NoFields == [n \in {} |-> 0]

WithField(acc, name, v) == [n \in DOMAIN acc \cup {name} |-> IF n = name THEN v ELSE acc[n]]

\* A length-prefixed run of n bytes
DRun(kind, b, p, n) ==
    IF n = -1 \/ p + n > Len(b) THEN DFail
    ELSE IF kind = "str" /\ ~ValidUtf8(SubSeq(b, p + 1, p + n)) THEN DFail
    ELSE IF kind = "date" /\ ~ValidDate(SubSeq(b, p + 1, p + n)) THEN DFail
    ELSE DRes(TRUE, SubSeq(b, p + 1, p + n), p + n)

RECURSIVE Deserialize(_, _, _), DeserializeFields(_, _, _, _, _), DeserializeAll(_, _, _, _, _)
RECURSIVE FieldsAfter(_, _, _, _, _), AllAfter(_, _, _, _, _)

\* Reading a value of type t from bytes b at offset p; what follows the value
\* is left unread
Deserialize(t, b, p) ==
    CASE t[1] \in {"int", "arr"} ->
           IF p + t[2] > Len(b) THEN DFail
           ELSE DRes(TRUE, SubSeq(b, p + 1, p + t[2]), p + t[2])
      [] t[1] = "bool" ->
           IF p + 1 > Len(b) \/ b[p + 1] \notin {0, 1} THEN DFail
           ELSE DRes(TRUE, b[p + 1] = 1, p + 1)
      [] t[1] = "enum" ->
           IF p + 4 > Len(b) \/ BinNum(SubSeq(b, p + 1, p + 4)) \notin 0..(t[2] - 1) THEN DFail
           ELSE DRes(TRUE, BinNum(SubSeq(b, p + 1, p + 4)), p + 4)
      [] t[1] \in {"str", "bytes", "date"} ->
           IF p + 8 > Len(b) THEN DFail
           ELSE DRun(t[1], b, p + 8, BinNum(SubSeq(b, p + 1, p + 8)))
      [] t[1] = "opt" ->
           IF p + 1 > Len(b) \/ b[p + 1] \notin {0, 1} THEN DFail
           ELSE IF b[p + 1] = 0 THEN DRes(TRUE, <<>>, p + 1)
           ELSE DSome(Deserialize(t[2], b, p + 1))
      [] t[1] = "vec" ->
           IF p + 8 > Len(b) THEN DFail
           ELSE DeserializeAll(t[2], b, p + 8, BinNum(SubSeq(b, p + 1, p + 8)), <<>>)
      [] t[1] = "struct" -> DeserializeFields(t[2], 1, b, p, NoFields)

\* The n elements of a sequence; an element takes a byte at least
DeserializeAll(t, b, p, n, acc) ==
    IF n = -1 \/ n > Len(b) - p THEN DFail
    ELSE IF n = 0 THEN DRes(TRUE, acc, p)
    ELSE AllAfter(t, b, n, acc, Deserialize(t, b, p))

AllAfter(t, b, n, acc, r) ==
    IF r.ok THEN DeserializeAll(t, b, r.p, n - 1, Append(acc, r.v)) ELSE DFail

DeserializeFields(fs, i, b, p, acc) ==
    IF i > Len(fs) THEN DRes(TRUE, acc, p)
    ELSE FieldsAfter(fs, i, b, acc, Deserialize(fs[i][2], b, p))

FieldsAfter(fs, i, b, acc, r) ==
    IF r.ok THEN DeserializeFields(fs, i + 1, b, r.p, WithField(acc, fs[i][1], r.v)) ELSE DFail

\* bincode::deserialize: the value at the start of the bytes, bytes after it
\* being allowed
BinDeserialize(t, b) == Deserialize(t, b, 0)

\* Bitfield and File, the same in every version
SBitfield == TStruct(<<<<"len", TInt(8)>>, <<"data", TBytes>>>>)

SFile == TStruct(<<<<"path", TStr>>, <<"length", TInt(8)>>>>)

\* An entry of piece_idx: (usize, u64)
SPieceIdx == TStruct(<<<<"file", TInt(8)>>, <<"offset", TInt(8)>>>>)

\* StatusState: Magnet, Incomplete, Complete
StateMagnet == 0
StateIncomplete == 1
StateComplete == 2

\* Status of ver_bfbf28, ver_fa1b6f, ver_6e27af and ver_249b1b
SStatus ==
    TStruct(<<<<"paused", TBool>>, <<"validating", TBool>>, <<"error", TOpt(TStr)>>,
              <<"state", TEnum(3)>>>>)

\* ver_fa1b6f::Info
ver_fa1b6f_Info ==
    TStruct(<<<<"name", TStr>>, <<"announce", TOpt(TStr)>>, <<"creator", TOpt(TStr)>>,
              <<"comment", TOpt(TStr)>>, <<"piece_len", TInt(4)>>, <<"total_len", TInt(8)>>,
              <<"hashes", TVec(TBytes)>>, <<"hash", TArr(20)>>, <<"files", TVec(SFile)>>,
              <<"private", TBool>>, <<"be_name", TOpt(TBytes)>>,
              <<"piece_idx", TVec(SPieceIdx)>>>>)

\* The fields of a Session after info that every version since ver_249b1b has
SessionTail ==
    <<<<"pieces", SBitfield>>, <<"uploaded", TInt(8)>>, <<"downloaded", TInt(8)>>,
      <<"status", SStatus>>, <<"path", TOpt(TStr)>>, <<"priority", TInt(1)>>,
      <<"priorities", TBytes>>, <<"created", TDate>>, <<"throttle_ul", TOpt(TInt(8))>>,
      <<"throttle_dl", TOpt(TInt(8))>>>>

\* ver_fa1b6f::Session
ver_fa1b6f_Session ==
    TStruct(<<<<"info", ver_fa1b6f_Info>>>> \o SessionTail \o <<<<"trackers", TVec(TStr)>>>>)

\* ver_6e27af::Info: no creator, no comment
ver_6e27af_Info ==
    TStruct(<<<<"name", TStr>>, <<"announce", TOpt(TStr)>>, <<"piece_len", TInt(4)>>,
              <<"total_len", TInt(8)>>, <<"hashes", TVec(TBytes)>>, <<"hash", TArr(20)>>,
              <<"files", TVec(SFile)>>, <<"private", TBool>>, <<"be_name", TOpt(TBytes)>>,
              <<"piece_idx", TVec(SPieceIdx)>>>>)

\* ver_6e27af::Session
ver_6e27af_Session ==
    TStruct(<<<<"info", ver_6e27af_Info>>>> \o SessionTail \o <<<<"trackers", TVec(TStr)>>>>)

\* ver_249b1b::Session: the Info of ver_6e27af, no trackers
ver_249b1b_Session == TStruct(<<<<"info", ver_6e27af_Info>>>> \o SessionTail)

\* ver_5f166d::Info: announce a String, no piece_idx
ver_5f166d_Info ==
    TStruct(<<<<"name", TStr>>, <<"announce", TStr>>, <<"piece_len", TInt(4)>>,
              <<"total_len", TInt(8)>>, <<"hashes", TVec(TBytes)>>, <<"hash", TArr(20)>>,
              <<"files", TVec(SFile)>>, <<"private", TBool>>, <<"be_name", TOpt(TBytes)>>>>)

\* ver_5f166d::Status: Pending, Paused, Leeching, Idle, Seeding, Validating,
\* Magnet, DiskError
ver_5f166d_Status == TEnum(8)

Paused == 1
Leeching == 2
Seeding == 4
OldMagnet == 6

\* ver_5f166d::Session
ver_5f166d_Session ==
    TStruct(<<<<"info", ver_5f166d_Info>>, <<"pieces", SBitfield>>, <<"uploaded", TInt(8)>>,
              <<"downloaded", TInt(8)>>, <<"status", ver_5f166d_Status>>, <<"path", TOpt(TStr)>>,
              <<"priority", TInt(1)>>, <<"priorities", TBytes>>, <<"created", TDate>>,
              <<"throttle_ul", TOpt(TInt(8))>>, <<"throttle_dl", TOpt(TInt(8))>>>>)

\* ver_8e1121::Session: as ver_5f166d, with wanted after path
ver_8e1121_Session ==
    TStruct(<<<<"info", ver_5f166d_Info>>, <<"pieces", SBitfield>>, <<"uploaded", TInt(8)>>,
              <<"downloaded", TInt(8)>>, <<"status", ver_5f166d_Status>>, <<"path", TOpt(TStr)>>,
              <<"wanted", SBitfield>>, <<"priority", TInt(1)>>, <<"priorities", TBytes>>,
              <<"created", TDate>>, <<"throttle_ul", TOpt(TInt(8))>>,
              <<"throttle_dl", TOpt(TInt(8))>>>>)

\* ver_fa1b6f::Session::migrate: the current Torrent, info and session apart
ver_fa1b6f_migrate(s) ==
    [info |-> [name |-> s.info.name, piece_len |-> s.info.piece_len,
               total_len |-> s.info.total_len, hashes |-> s.info.hashes,
               hash |-> s.info.hash, files |-> s.info.files, private |-> s.info.private,
               be_name |-> s.info.be_name, piece_idx |-> s.info.piece_idx],
     session |-> [announce |-> s.info.announce, creator |-> s.info.creator,
                  comment |-> s.info.comment, pieces |-> s.pieces, uploaded |-> s.uploaded,
                  downloaded |-> s.downloaded, status |-> s.status, path |-> s.path,
                  priority |-> s.priority, priorities |-> s.priorities,
                  created |-> s.created, throttle_ul |-> s.throttle_ul,
                  throttle_dl |-> s.throttle_dl, trackers |-> s.trackers]]

\* ver_6e27af::Session::migrate: creator and comment are None
ver_6e27af_migrate(s) ==
    ver_fa1b6f_migrate(
        [s EXCEPT !.info = [name |-> s.info.name, announce |-> s.info.announce,
                            comment |-> <<>>, creator |-> <<>>,
                            piece_len |-> s.info.piece_len, total_len |-> s.info.total_len,
                            hashes |-> s.info.hashes, hash |-> s.info.hash,
                            files |-> s.info.files, private |-> s.info.private,
                            be_name |-> s.info.be_name, piece_idx |-> s.info.piece_idx]])

\* ver_249b1b::Session::migrate: the announce URL, if any, is the one tracker
ver_249b1b_migrate(s) ==
    ver_6e27af_migrate(
        [info |-> s.info, pieces |-> s.pieces, uploaded |-> s.uploaded,
         downloaded |-> s.downloaded, status |-> s.status, path |-> s.path,
         priority |-> s.priority, priorities |-> s.priorities, created |-> s.created,
         throttle_ul |-> s.throttle_ul, throttle_dl |-> s.throttle_dl,
         trackers |-> IF s.info.announce # <<>> THEN <<s.info.announce[1]>> ELSE <<>>])

RECURSIVE ScanPieces(_, _, _)

\* ver_5f166d::Session::migrate, its loop "for i in 0..self.pieces.len - 1"
\* over self.pieces.data[i]: len counts the pieces, data holds eight of them
\* in a byte.  The loop ends "done" at the end of the range, "incomplete" at a
\* byte that is not 0xFF, and in a panic when i is past the end of data; of a
\* len of 0 the range is that of the wrapped u64
ScanPieces(len, data, i) ==
    IF len # 0 /\ i >= len - 1 THEN "done"
    ELSE IF i >= Len(data) THEN "panic"
    ELSE IF data[i + 1] # 255 THEN "incomplete"
    ELSE ScanPieces(len, data, i + 1)

\* The match on (self.pieces.len % 8, the last byte of data)
LastByteFull(len, lastByte) ==
    <<len % 8, lastByte>> \in {<<0, 255>>, <<7, 254>>, <<6, 252>>, <<5, 248>>, <<4, 240>>,
                           <<3, 224>>, <<2, 192>>, <<1, 128>>}

\* The state ver_5f166d::Session::migrate gives the torrent
MigratedState(len, data) ==
    IF ScanPieces(len, data, 0) = "incomplete" THEN StateIncomplete
    ELSE IF data # <<>> /\ ~LastByteFull(len, data[Len(data)]) THEN StateIncomplete
    ELSE StateComplete

RECURSIVE SkipFiles(_, _, _), PieceIdxFrom(_, _, _, _, _)

\* The while loop of generate_piece_idx: past the files that end at or before
\* offset
SkipFiles(file, offset, fls) ==
    IF file < Len(fls) /\ offset >= BinNum(fls[file + 1].length)
    THEN SkipFiles(file + 1, offset - BinNum(fls[file + 1].length), fls)
    ELSE <<file, offset>>

PieceIdxFrom(pieces, pl, fls, file, offset) ==
    IF pieces = 0 THEN <<>>
    ELSE <<[file |-> BinLE(file, 8), offset |-> BinLE(offset, 8)]>>
         \o PieceIdxFrom(pieces - 1, pl, fls, SkipFiles(file, offset + pl, fls)[1],
                         SkipFiles(file, offset + pl, fls)[2])

\* generate_piece_idx(pieces, pl, files)
generate_piece_idx(pieces, pl, fls) == PieceIdxFrom(pieces, pl, fls, 0, 0)

\* ver_5f166d::Session::migrate panics
ver_5f166d_panics(s) == ScanPieces(BinNum(s.pieces.len), s.pieces.data, 0) = "panic"

\* ver_5f166d::Session::migrate, when it does not panic
ver_5f166d_migrate(s) ==
    ver_249b1b_migrate(
        [info |-> [name |-> s.info.name,
                   announce |-> IF s.info.announce = <<>> THEN <<>> ELSE <<s.info.announce>>,
                   piece_len |-> s.info.piece_len, total_len |-> s.info.total_len,
                   hashes |-> s.info.hashes, hash |-> s.info.hash, files |-> s.info.files,
                   private |-> s.info.private, be_name |-> s.info.be_name,
                   piece_idx |-> generate_piece_idx(Len(s.info.hashes),
                                                    BinNum(s.info.piece_len), s.info.files)],
         pieces |-> s.pieces, uploaded |-> s.uploaded, downloaded |-> s.downloaded,
         status |-> [paused |-> s.status = Paused,
                     state |-> MigratedState(BinNum(s.pieces.len), s.pieces.data),
                     validating |-> FALSE, error |-> <<>>],
         path |-> s.path, priority |-> s.priority, priorities |-> s.priorities,
         created |-> s.created, throttle_ul |-> s.throttle_ul,
         throttle_dl |-> s.throttle_dl])

\* ver_8e1121::Session::migrate: wanted is dropped
ver_8e1121_migrate(s) ==
    ver_5f166d_migrate(
        [info |-> s.info, pieces |-> s.pieces, uploaded |-> s.uploaded,
         downloaded |-> s.downloaded, status |-> s.status, path |-> s.path,
         priority |-> s.priority, priorities |-> s.priorities, created |-> s.created,
         throttle_ul |-> s.throttle_ul, throttle_dl |-> s.throttle_dl])

\* The older formats, in the order load tries them
Formats == <<"ver_fa1b6f", "ver_6e27af", "ver_249b1b", "ver_5f166d", "ver_8e1121">>

FormatOf(ver) ==
    CASE ver = "ver_fa1b6f" -> ver_fa1b6f_Session
      [] ver = "ver_6e27af" -> ver_6e27af_Session
      [] ver = "ver_249b1b" -> ver_249b1b_Session
      [] ver = "ver_5f166d" -> ver_5f166d_Session
      [] ver = "ver_8e1121" -> ver_8e1121_Session

\* The chain of migrate steps from a version to the current one
Migrate(ver, s) ==
    CASE ver = "ver_fa1b6f" -> ver_fa1b6f_migrate(s)
      [] ver = "ver_6e27af" -> ver_6e27af_migrate(s)
      [] ver = "ver_249b1b" -> ver_249b1b_migrate(s)
      [] ver = "ver_5f166d" -> ver_5f166d_migrate(s)
      [] ver = "ver_8e1121" -> ver_8e1121_migrate(s)

\* The chain passes ver_5f166d::Session::migrate and that panics
MigratePanics(ver, s) == ver \in {"ver_5f166d", "ver_8e1121"} /\ ver_5f166d_panics(s)

\* LoadResult, and the panic that leaves load without one
LoadRes(tag, ver, torrent) == [tag |-> tag, ver |-> ver, torrent |-> torrent]

\* The session bytes deserialize as version Formats[i]
DecodesAs(i, b) == BinDeserialize(FormatOf(Formats[i]), b).ok

\* What load does with the first version the bytes deserialize as
Migrated(ver, s) ==
    IF MigratePanics(ver, s) THEN LoadRes("Panic", ver, <<>>)
    ELSE LoadRes("Migrated", ver, Migrate(ver, s))

\* The first of the formats the bytes deserialize as
FirstFormat(b) ==
    CHOOSE i \in DOMAIN Formats : DecodesAs(i, b) /\ \A j \in 1..(i - 1) : ~DecodesAs(j, b)

\* load(session_data, None)
load(b) ==
    IF \A i \in DOMAIN Formats : ~DecodesAs(i, b) THEN LoadRes("Failed", "", <<>>)
    ELSE Migrated(Formats[FirstFormat(b)],
                  BinDeserialize(FormatOf(Formats[FirstFormat(b)]), b).v)

\* The sessions written: a torrent of n pieces of 1 MiB in one file, all of
\* them there or the first only (none, of a single piece); a magnet link has
\* no piece yet
PIECE_LEN == 1048576

TorrentShapes ==
    {[n |-> n, full |-> f, announce |-> a, paused |-> p, trackers |-> t] :
        n \in {0, 1, FewPieces, 8}, f \in BOOLEAN, a \in BOOLEAN, p \in BOOLEAN,
        t \in 0..MaxTrackers}

Url == <<116>>

\* The Bitfield of n <= 8 pieces: the pieces are the bits from the highest
BitfieldOf(n, full) ==
    [len |-> BinLE(n, 8),
     data |-> IF n = 0 THEN <<>>
              ELSE IF full THEN <<256 - 2 ^ (8 - n)>>
              ELSE IF n = 1 THEN <<0>> ELSE <<128>>]

\* The Info of every version but for announce, creator, comment, piece_idx
InfoOf(d) ==
    [name |-> <<110>>, piece_len |-> BinLE(PIECE_LEN, 4),
     total_len |-> BinLE(d.n * PIECE_LEN, 8), hashes |-> [i \in 1..d.n |-> [j \in 1..20 |-> 9]],
     hash |-> [j \in 1..20 |-> 7],
     files |-> IF d.n = 0 THEN <<>>
               ELSE <<[path |-> <<102>>, length |-> BinLE(d.n * PIECE_LEN, 8)]>>,
     private |-> FALSE, be_name |-> <<>>]

\* The fields of a Session after info but for status
TailOf(d, info, status) ==
    [info |-> info, pieces |-> BitfieldOf(d.n, d.full \/ d.n = 0), uploaded |-> BinLE(0, 8),
     downloaded |-> BinLE(0, 8), status |-> status, path |-> <<>>, priority |-> <<3>>,
     priorities |-> [i \in 1..Len(info.files) |-> 3], created |-> Created,
     throttle_ul |-> <<>>, throttle_dl |-> <<>>]

StatusOf(d) ==
    [paused |-> d.paused, validating |-> FALSE, error |-> <<>>,
     state |-> IF d.n = 0 THEN StateMagnet ELSE IF d.full THEN StateComplete ELSE StateIncomplete]

OldStatusOf(d) ==
    IF d.paused THEN Paused ELSE IF d.n = 0 THEN OldMagnet
    ELSE IF d.full THEN Seeding ELSE Leeching

\* Info with the fields a version adds
InfoWith(info, more) ==
    [n \in DOMAIN info \cup DOMAIN more |-> IF n \in DOMAIN more THEN more[n] ELSE info[n]]

NewInfoOf(d) ==
    InfoWith(InfoOf(d),
             [announce |-> IF d.announce THEN <<Url>> ELSE <<>>,
              piece_idx |-> generate_piece_idx(d.n, PIECE_LEN, InfoOf(d).files)])

\* The instance a version of synapse holds of the torrent
InstanceOf(ver, d) ==
    CASE ver = "ver_fa1b6f" ->
           InfoWith(TailOf(d, InfoWith(NewInfoOf(d), [creator |-> <<>>, comment |-> <<Url>>]),
                           StatusOf(d)),
                    [trackers |-> [i \in 1..d.trackers |-> Url]])
      [] ver = "ver_6e27af" ->
           InfoWith(TailOf(d, NewInfoOf(d), StatusOf(d)),
                    [trackers |-> [i \in 1..d.trackers |-> Url]])
      [] ver = "ver_249b1b" -> TailOf(d, NewInfoOf(d), StatusOf(d))
      [] ver = "ver_5f166d" ->
           TailOf(d, InfoWith(InfoOf(d), [announce |-> IF d.announce THEN Url ELSE <<>>]),
                  OldStatusOf(d))
      [] ver = "ver_8e1121" ->
           InfoWith(TailOf(d, InfoWith(InfoOf(d), [announce |-> IF d.announce THEN Url ELSE <<>>]),
                           OldStatusOf(d)),
                    [wanted |-> BitfieldOf(d.n, TRUE)])

NotLoaded == LoadRes("none", "", <<>>)

SessionInit ==
    /\ sver \in {Formats[i] : i \in DOMAIN Formats}
    /\ sinst \in {InstanceOf(sver, d) : d \in TorrentShapes}
    /\ sblob = <<>>
    /\ sres = NotLoaded

SessionIdle ==
    /\ sver = "ver_fa1b6f"
    /\ sinst = <<>>
    /\ sblob = <<>>
    /\ sres = LoadRes("idle", "", <<>>)

\* The version of synapse writes the session: bincode::serialize
SessionWrite ==
    /\ sres = NotLoaded
    /\ sblob = <<>>
    /\ sblob' = BinSerialize(FormatOf(sver), sinst)
    /\ UNCHANGED <<sver, sinst, sres>>
    /\ UNCHANGED notSession

\* The current synapse loads it: load(session_data, None)
SessionLoad ==
    /\ sres = NotLoaded
    /\ sblob # <<>>
    /\ sres' = load(sblob)
    /\ UNCHANGED <<sver, sinst, sblob>>
    /\ UNCHANGED notSession

SessionNext == SessionWrite \/ SessionLoad

-----------------------------------------------------------------------------
(* The KRPC messages of the DHT (src/src/tracker/dht/proto.rs).  A message is
   a bencoded dictionary.  crate::bencode is not part of the sources at hand:
   BEncode and its encoding are modelled on the bencoding the specification
   names (byte strings "<length>:<bytes>", integers "i<digits>e", lists "l..e",
   dictionaries "d..e" with the keys in ascending order, BTreeMap's). *)

\* Bound: the nodes and the addresses a Response lists
MaxNodes == 1

\* BEncode::String, Int, List, Dict; a Dict holds <<key, value>> in key order
BString(bytes) == <<"s", bytes>>
BInt(n) == <<"i", n>>
BList(vs) == <<"l", vs>>
BDict(kvs) == <<"d", kvs>>

RECURSIVE BytesLess(_, _)

\* The order of Vec<u8> keys in a BTreeMap
BytesLess(a, b) ==
    IF b = <<>> THEN FALSE
    ELSE IF a = <<>> THEN TRUE
    ELSE IF a[1] # b[1] THEN a[1] < b[1]
    ELSE BytesLess(Tail(a), Tail(b))

\* BTreeMap::insert
DictInsert(kvs, k, v) ==
    SelectSeq(kvs, LAMBDA kv : BytesLess(kv[1], k)) \o <<<<k, v>>>>
    \o SelectSeq(kvs, LAMBDA kv : BytesLess(k, kv[1]))

\* BTreeMap::remove, as an Option: <<>> or <<value>>
DictRemove(kvs, k) ==
    IF \E i \in 1..Len(kvs) : kvs[i][1] = k
    THEN <<kvs[CHOOSE i \in 1..Len(kvs) : kvs[i][1] = k][2]>>
    ELSE <<>>

\* BEncode::into_bytes, into_int, into_list, into_dict on an Option
IntoKind(o, kind) == IF o # <<>> /\ o[1][1] = kind THEN <<o[1][2]>> ELSE <<>>

\* BEncode::into_string: the bytes of a String that are UTF-8
IntoString(o) ==
    IF IntoKind(o, "s") # <<>> /\ ValidUtf8(IntoKind(o, "s")[1]) THEN IntoKind(o, "s") ELSE <<>>

RECURSIVE DecimalDigits(_)

\* A number in decimal, ASCII
DecimalDigits(n) ==
    IF n < 10 THEN <<48 + n>> ELSE DecimalDigits(n \div 10) \o <<48 + (n % 10)>>

RECURSIVE BEncodeBuf(_), BEncodeAll(_, _), BEncodeEntries(_, _)

\* BEncode::encode_to_buf
BEncodeBuf(v) ==
    CASE v[1] = "s" -> DecimalDigits(Len(v[2])) \o <<58>> \o v[2]
      [] v[1] = "i" -> <<105>> \o DecimalDigits(v[2]) \o <<101>>
      [] v[1] = "l" -> <<108>> \o BEncodeAll(v[2], 1) \o <<101>>
      [] v[1] = "d" -> <<100>> \o BEncodeEntries(v[2], 1) \o <<101>>

BEncodeAll(vs, i) ==
    IF i > Len(vs) THEN <<>> ELSE BEncodeBuf(vs[i]) \o BEncodeAll(vs, i + 1)

BEncodeEntries(kvs, i) ==
    IF i > Len(kvs) THEN <<>>
    ELSE BEncodeBuf(BString(kvs[i][1])) \o BEncodeBuf(kvs[i][2]) \o BEncodeEntries(kvs, i + 1)

RECURSIVE ReadDigits(_, _, _, _)

\* The digits at offset p: whether there is one, their number, the offset
\* after them
ReadDigits(b, p, n, seen) ==
    IF p < Len(b) /\ b[p + 1] \in 48..57 /\ n < 100000
    THEN ReadDigits(b, p + 1, 10 * n + (b[p + 1] - 48), TRUE)
    ELSE DRes(seen, n, p)

RECURSIVE BDecodeAt(_, _), BDecodeList(_, _, _), BDecodeDict(_, _, _)
RECURSIVE BListAfter(_, _, _), BDictKey(_, _, _), BDictAfter(_, _, _, _)

BIntAfter(b, r) ==
    IF r.ok /\ r.p < Len(b) /\ b[r.p + 1] = 101 THEN DRes(TRUE, BInt(r.v), r.p + 1) ELSE DFail

BStringAfter(b, r) ==
    IF r.ok /\ r.p < Len(b) /\ b[r.p + 1] = 58 /\ r.p + 1 + r.v <= Len(b)
    THEN DRes(TRUE, BString(SubSeq(b, r.p + 2, r.p + 1 + r.v)), r.p + 1 + r.v)
    ELSE DFail

\* The bencoded value at offset p
BDecodeAt(b, p) ==
    IF p >= Len(b) THEN DFail
    ELSE CASE b[p + 1] = 105 -> BIntAfter(b, ReadDigits(b, p + 1, 0, FALSE))
           [] b[p + 1] \in 48..57 -> BStringAfter(b, ReadDigits(b, p, 0, FALSE))
           [] b[p + 1] = 108 -> BDecodeList(b, p + 1, <<>>)
           [] b[p + 1] = 100 -> BDecodeDict(b, p + 1, <<>>)
           [] OTHER -> DFail

BDecodeList(b, p, acc) ==
    IF p >= Len(b) THEN DFail
    ELSE IF b[p + 1] = 101 THEN DRes(TRUE, BList(acc), p + 1)
    ELSE BListAfter(b, acc, BDecodeAt(b, p))

BListAfter(b, acc, r) == IF r.ok THEN BDecodeList(b, r.p, Append(acc, r.v)) ELSE DFail

BDecodeDict(b, p, acc) ==
    IF p >= Len(b) THEN DFail
    ELSE IF b[p + 1] = 101 THEN DRes(TRUE, BDict(acc), p + 1)
    ELSE BDictKey(b, acc, BDecodeAt(b, p))

BDictKey(b, acc, k) ==
    IF k.ok /\ k.v[1] = "s" THEN BDictAfter(b, acc, k.v[2], BDecodeAt(b, k.p)) ELSE DFail

BDictAfter(b, acc, k, r) ==
    IF r.ok THEN BDecodeDict(b, r.p, DictInsert(acc, k, r.v)) ELSE DFail

\* bencode::decode_buf: the value the buffer holds, as an Option
decode_buf(b) == IF BDecodeAt(b, 0).ok THEN <<BDecodeAt(b, 0).v>> ELSE <<>>

\* The keys and words of KRPC, as bytes
K_t == <<116>>
K_y == <<121>>
K_v == <<118>>
K_q == <<113>>
K_a == <<97>>
K_r == <<114>>
K_e == <<101>>
K_id == <<105, 100>>
K_target == <<116, 97, 114, 103, 101, 116>>
K_info_hash == <<105, 110, 102, 111, 95, 104, 97, 115, 104>>
K_implied_port == <<105, 109, 112, 108, 105, 101, 100, 95, 112, 111, 114, 116>>
K_port == <<112, 111, 114, 116>>
K_token == <<116, 111, 107, 101, 110>>
K_nodes == <<110, 111, 100, 101, 115>>
K_values == <<118, 97, 108, 117, 101, 115>>
W_ping == <<112, 105, 110, 103>>
W_find_node == <<102, 105, 110, 100, 95, 110, 111, 100, 101>>
W_get_peers == <<103, 101, 116, 95, 112, 101, 101, 114, 115>>
W_announce_peer == <<97, 110, 110, 111, 117, 110, 99, 101, 95, 112, 101, 101, 114>>

RECURSIVE from_bytes_be(_)

\* BigUint::from_bytes_be: an ID is a number, held here as its big-endian
\* digits without leading zeros
from_bytes_be(bs) ==
    IF bs # <<>> /\ bs[1] = 0 THEN from_bytes_be(Tail(bs)) ELSE bs

\* BigUint::to_bytes_be: the digits, [0] for zero
to_bytes_be(id) == IF id = <<>> THEN <<0>> ELSE id

\* util::addr_to_bytes, util::bytes_to_addr
addr_to_bytes(addr) == addr.ip \o BE16(addr.port)

bytes_to_addr(p) == [ip |-> SubSeq(p, 1, 4), port |-> ReadU16(p, 4)]

\* Node::new, Node::to_bytes
NodeNew(n) == [id |-> from_bytes_be(SubSeq(n, 1, 20)), addr |-> bytes_to_addr(SubSeq(n, 21, Len(n)))]

NodeToBytes(node) == to_bytes_be(node.id) \o addr_to_bytes(node.addr)

RECURSIVE NodesToBytes(_), NodesFromBytes(_)

\* for node in nodes { data.extend(node.to_bytes()) }
NodesToBytes(nodes) ==
    IF nodes = <<>> THEN <<>> ELSE NodeToBytes(Head(nodes)) \o NodesToBytes(Tail(nodes))

\* for n in ns.chunks(26) { if n.len() == 26 { nodes.push(Node::new(n)) } }
NodesFromBytes(ns) ==
    IF Len(ns) < 26 THEN <<>>
    ELSE <<NodeNew(SubSeq(ns, 1, 26))>> \o NodesFromBytes(SubSeq(ns, 27, Len(ns)))

\* The arguments of a request
RequestArgs(kind) ==
    CASE kind.q = "ping" -> <<<<K_id, BString(to_bytes_be(kind.id))>>>>
      [] kind.q = "find_node" ->
           DictInsert(<<<<K_id, BString(to_bytes_be(kind.id))>>>>, K_target,
                      BString(to_bytes_be(kind.target)))
      [] kind.q = "get_peers" ->
           DictInsert(<<<<K_id, BString(to_bytes_be(kind.id))>>>>, K_info_hash,
                      BString(kind.hash))
      [] kind.q = "announce_peer" ->
           DictInsert(DictInsert(DictInsert(DictInsert(
               <<<<K_id, BString(to_bytes_be(kind.id))>>>>,
               K_info_hash, BString(kind.hash)),
               K_implied_port, BInt(IF kind.implied_port THEN 1 ELSE 0)),
               K_port, BInt(kind.port)),
               K_token, BString(kind.token))

QueryWord(q) ==
    CASE q = "ping" -> W_ping
      [] q = "find_node" -> W_find_node
      [] q = "get_peers" -> W_get_peers
      [] q = "announce_peer" -> W_announce_peer

\* Request::encode
RequestEncode(req) ==
    BEncodeBuf(BDict(
        DictInsert(DictInsert(
            IF req.version # <<>>
            THEN DictInsert(DictInsert(<<<<K_t, BString(req.transaction)>>>>, K_y, BString(K_q)),
                            K_v, BString(req.version[1]))
            ELSE DictInsert(<<<<K_t, BString(req.transaction)>>>>, K_y, BString(K_q)),
            K_q, BString(QueryWord(req.kind.q))),
            K_a, BDict(RequestArgs(req.kind)))))

\* The result of a decode
Decoded_Ok(msg) == [done |-> TRUE, ok |-> TRUE, msg |-> msg]

Decoded_Err == [done |-> TRUE, ok |-> FALSE, msg |-> <<>>]

\* .and_then(|b| b.into_bytes()).and_then(|b| b.get(0..20).map(BigUint::from_bytes_be))
IdOf(o) ==
    IF IntoKind(o, "s") # <<>> /\ Len(IntoKind(o, "s")[1]) >= 20
    THEN <<from_bytes_be(SubSeq(IntoKind(o, "s")[1], 1, 20))>>
    ELSE <<>>

\* info_hash: the bytes when there are 20 of them
HashOf(o) ==
    IF IntoKind(o, "s") # <<>> /\ Len(IntoKind(o, "s")[1]) = 20 THEN IntoKind(o, "s") ELSE <<>>

\* port: an integer in 0..=65_535
PortOf(o) ==
    IF IntoKind(o, "i") # <<>> /\ IntoKind(o, "i")[1] \in 0..65535 THEN IntoKind(o, "i") ELSE <<>>

\* implied_port: b > 0, false when absent
ImpliedOf(o) == IntoKind(o, "i") # <<>> /\ IntoKind(o, "i")[1] > 0

\* The kind of a request with query word q, arguments a and id, as an Option
RequestKindOf(q, a, id) ==
    CASE q = W_ping -> <<[q |-> "ping", id |-> id]>>
      [] q = W_find_node ->
           IF IdOf(DictRemove(a, K_target)) = <<>> THEN <<>>
           ELSE <<[q |-> "find_node", id |-> id, target |-> IdOf(DictRemove(a, K_target))[1]]>>
      [] q = W_get_peers ->
           IF HashOf(DictRemove(a, K_info_hash)) = <<>> THEN <<>>
           ELSE <<[q |-> "get_peers", id |-> id, hash |-> HashOf(DictRemove(a, K_info_hash))[1]]>>
      [] q = W_announce_peer ->
           IF \/ HashOf(DictRemove(a, K_info_hash)) = <<>>
              \/ PortOf(DictRemove(a, K_port)) = <<>>
              \/ IntoKind(DictRemove(a, K_token), "s") = <<>>
           THEN <<>>
           ELSE <<[q |-> "announce_peer", id |-> id,
                   hash |-> HashOf(DictRemove(a, K_info_hash))[1],
                   token |-> IntoKind(DictRemove(a, K_token), "s")[1],
                   port |-> PortOf(DictRemove(a, K_port))[1],
                   implied_port |-> ImpliedOf(DictRemove(a, K_implied_port))]>>
      [] OTHER -> <<>>

RequestOf(transaction, version, kind) ==
    IF kind = <<>> THEN Decoded_Err
    ELSE Decoded_Ok([dir |-> "request", transaction |-> transaction, version |-> version,
                     kind |-> kind[1]])

\* Request::decode, of the dictionary d
RequestFromDict(d) ==
    IF \/ IntoKind(DictRemove(d, K_t), "s") = <<>>
       \/ IntoString(DictRemove(d, K_y)) # <<K_q>>
       \/ IntoString(DictRemove(d, K_q)) = <<>>
       \/ IntoKind(DictRemove(d, K_a), "d") = <<>>
    THEN Decoded_Err
    ELSE IF IdOf(DictRemove(IntoKind(DictRemove(d, K_a), "d")[1], K_id)) = <<>> THEN Decoded_Err
    ELSE RequestOf(IntoKind(DictRemove(d, K_t), "s")[1], IntoString(DictRemove(d, K_v)),
                   RequestKindOf(IntoString(DictRemove(d, K_q))[1],
                                 IntoKind(DictRemove(d, K_a), "d")[1],
                                 IdOf(DictRemove(IntoKind(DictRemove(d, K_a), "d")[1], K_id))[1]))

\* Request::decode
RequestDecode(buf) ==
    IF IntoKind(decode_buf(buf), "d") = <<>> THEN Decoded_Err
    ELSE RequestFromDict(IntoKind(decode_buf(buf), "d")[1])

\* The code of an ErrorResponse: Generic, Server, Protocol, UnknownMethod
ErrorCode(e) ==
    CASE e = "Generic" -> 201
      [] e = "Server" -> 202
      [] e = "Protocol" -> 203
      [] e = "UnknownMethod" -> 204

ErrorOfCode(code) == {e \in {"Generic", "Server", "Protocol", "UnknownMethod"} : ErrorCode(e) = code}

\* values_b: a String of 6 bytes for every address
ValuesList(values) == [i \in 1..Len(values) |-> BString(addr_to_bytes(values[i]))]

\* The r dictionary of a response that is no error
ResponseArgs(kind) ==
    CASE kind.r = "id" -> <<<<K_id, BString(to_bytes_be(kind.id))>>>>
      [] kind.r = "find_node" ->
           DictInsert(<<<<K_nodes, BString(NodesToBytes(kind.nodes))>>>>, K_id,
                      BString(to_bytes_be(kind.id)))
      [] kind.r = "get_peers" ->
           DictInsert(DictInsert(DictInsert(
               <<<<K_id, BString(to_bytes_be(kind.id))>>>>,
               K_token, BString(kind.token)),
               K_values, BList(ValuesList(kind.values))),
               K_nodes, BString(NodesToBytes(kind.nodes)))

\* Response::encode
ResponseEncode(resp) ==
    BEncodeBuf(BDict(
        IF resp.kind.r = "error"
        THEN DictInsert(DictInsert(<<<<K_t, BString(resp.transaction)>>>>, K_e,
                                   BList(<<BInt(ErrorCode(resp.kind.error)),
                                           BString(resp.kind.msg)>>)),
                        K_y, BString(K_e))
        ELSE DictInsert(DictInsert(<<<<K_t, BString(resp.transaction)>>>>, K_y, BString(K_r)),
                        K_r, BDict(ResponseArgs(resp.kind)))))

ResponseOf(transaction, kind) ==
    Decoded_Ok([dir |-> "response", transaction |-> transaction, kind |-> kind])

\* Response::decode of y = "e", e the value at key e as an Option
ErrorFrom(transaction, e) ==
    IF e = <<>> \/ Len(e[1]) # 2 THEN Decoded_Err
    ELSE IF e[1][1][1] # "i" \/ IntoString(<<e[1][2]>>) = <<>> THEN Decoded_Err
    ELSE IF ErrorOfCode(e[1][1][2]) = {} THEN Decoded_Err
    ELSE ResponseOf(transaction,
                    [r |-> "error", error |-> CHOOSE x \in ErrorOfCode(e[1][1][2]) : TRUE,
                     msg |-> e[1][2][2]])

RECURSIVE ValuesFrom(_)

\* The addresses of values: the Strings of 6 bytes
ValuesFrom(addrs) ==
    IF addrs = <<>> THEN <<>>
    ELSE (IF Head(addrs)[1] = "s" /\ Len(Head(addrs)[2]) = 6
          THEN <<bytes_to_addr(Head(addrs)[2])>> ELSE <<>>) \o ValuesFrom(Tail(addrs))

\* The nodes of an r dictionary, none when the key is absent
NodesOf(r) ==
    IF IntoKind(DictRemove(r, K_nodes), "s") = <<>> THEN <<>>
    ELSE NodesFromBytes(IntoKind(DictRemove(r, K_nodes), "s")[1])

\* Response::decode of y = "r", r the dictionary at key r
ReplyKind(r, id) ==
    IF IntoKind(DictRemove(r, K_token), "s") # <<>>
    THEN [r |-> "get_peers", id |-> id, token |-> IntoKind(DictRemove(r, K_token), "s")[1],
          nodes |-> NodesOf(r),
          values |-> IF IntoKind(DictRemove(r, K_values), "l") = <<>> THEN <<>>
                     ELSE ValuesFrom(IntoKind(DictRemove(r, K_values), "l")[1])]
    ELSE IF IntoKind(DictRemove(r, K_nodes), "s") # <<>>
    THEN [r |-> "find_node", id |-> id, nodes |-> NodesOf(r)]
    ELSE [r |-> "id", id |-> id]

ReplyFrom(transaction, r) ==
    IF r = <<>> THEN Decoded_Err
    ELSE IF IdOf(DictRemove(r[1], K_id)) = <<>> THEN Decoded_Err
    ELSE ResponseOf(transaction, ReplyKind(r[1], IdOf(DictRemove(r[1], K_id))[1]))

\* Response::decode, of the dictionary d
ResponseFromDict(d) ==
    IF IntoKind(DictRemove(d, K_t), "s") = <<>> \/ IntoString(DictRemove(d, K_y)) = <<>>
    THEN Decoded_Err
    ELSE IF IntoString(DictRemove(d, K_y))[1] = K_e
    THEN ErrorFrom(IntoKind(DictRemove(d, K_t), "s")[1], IntoKind(DictRemove(d, K_e), "l"))
    ELSE IF IntoString(DictRemove(d, K_y))[1] = K_r
    THEN ReplyFrom(IntoKind(DictRemove(d, K_t), "s")[1], IntoKind(DictRemove(d, K_r), "d"))
    ELSE Decoded_Err

\* Response::decode
ResponseDecode(buf) ==
    IF IntoKind(decode_buf(buf), "d") = <<>> THEN Decoded_Err
    ELSE ResponseFromDict(IntoKind(decode_buf(buf), "d")[1])

\* encode and decode of a message of either direction
KrpcEncoded(msg) == IF msg.dir = "request" THEN RequestEncode(msg) ELSE ResponseEncode(msg)

KrpcDecoded(dir, buf) == IF dir = "request" THEN RequestDecode(buf) ELSE ResponseDecode(buf)

\* The messages sent: ids of 20 bytes, with and without leading zero bytes
Ids20 ==
    {[i \in 1..20 |-> 7], [i \in 1..20 |-> IF i = 1 THEN 0 ELSE 7], [i \in 1..20 |-> 0]}

KIds == {from_bytes_be(b) : b \in Ids20}

KTransactions == {<<>>, <<97, 97>>}

KTokens == {<<>>, <<1, 2>>}

KHash == [i \in 1..20 |-> IF i = 1 THEN 0 ELSE 9]

KAddr == [ip |-> <<10, 0, 0, 1>>, port |-> 6881]

KNodes == {[id |-> id, addr |-> KAddr] : id \in KIds}

RECURSIVE SeqsUpTo(_, _)

\* The sequences over S of length n at most
SeqsUpTo(S, n) ==
    IF n = 0 THEN {<<>>}
    ELSE SeqsUpTo(S, n - 1) \cup {Append(s, x) : s \in {t \in SeqsUpTo(S, n - 1) : Len(t) = n - 1}, x \in S}

RequestKinds ==
    {[q |-> "ping", id |-> id] : id \in KIds}
    \cup {[q |-> "find_node", id |-> id, target |-> t] : id \in KIds, t \in KIds}
    \cup {[q |-> "get_peers", id |-> id, hash |-> KHash] : id \in KIds}
    \cup {[q |-> "announce_peer", id |-> id, hash |-> KHash, token |-> tk, port |-> p,
           implied_port |-> ip] : id \in KIds, tk \in KTokens, p \in {0, 6881}, ip \in BOOLEAN}

ResponseKinds ==
    {[r |-> "id", id |-> id] : id \in KIds}
    \cup {[r |-> "find_node", id |-> id, nodes |-> ns] : id \in KIds, ns \in SeqsUpTo(KNodes, MaxNodes)}
    \cup {[r |-> "get_peers", id |-> id, token |-> tk, values |-> vs, nodes |-> ns] :
            id \in KIds, tk \in KTokens, vs \in SeqsUpTo({KAddr}, MaxNodes),
            ns \in SeqsUpTo(KNodes, MaxNodes)}
    \cup {[r |-> "error", error |-> e, msg |-> <<110, 111>>] :
            e \in {"Generic", "Server", "Protocol", "UnknownMethod"}}

KrpcMessages ==
    {[dir |-> "request", transaction |-> t, version |-> v, kind |-> k] :
        t \in KTransactions, v \in {<<>>, <<<<83, 89>>>>}, k \in RequestKinds}
    \cup {[dir |-> "response", transaction |-> t, kind |-> k] :
            t \in KTransactions, k \in ResponseKinds}

NotDecoded == [done |-> FALSE, ok |-> FALSE, msg |-> <<>>]

KrpcInit ==
    /\ kmsg \in KrpcMessages
    /\ kwire = <<>>
    /\ kdec = NotDecoded
    /\ kwire2 = <<>>

KrpcIdle ==
    /\ kmsg = [dir |-> "none"]
    /\ kwire = <<>>
    /\ kdec = NotDecoded
    /\ kwire2 = <<>>

\* The message is encoded to be sent
KrpcEncode ==
    /\ kmsg.dir # "none"
    /\ kwire = <<>>
    /\ kwire' = KrpcEncoded(kmsg)
    /\ UNCHANGED <<kmsg, kdec, kwire2>>
    /\ UNCHANGED notKrpc

\* The one that receives the bytes decodes them
KrpcDecode ==
    /\ kwire # <<>>
    /\ ~kdec.done
    /\ kdec' = KrpcDecoded(kmsg.dir, kwire)
    /\ UNCHANGED <<kmsg, kwire, kwire2>>
    /\ UNCHANGED notKrpc

\* The decoded message is encoded again, as the tests of proto.rs do
KrpcReencode ==
    /\ kdec.ok
    /\ kwire2 = <<>>
    /\ kwire2' = KrpcEncoded(kdec.msg)
    /\ UNCHANGED <<kmsg, kwire, kdec>>
    /\ UNCHANGED notKrpc

KrpcNext == KrpcEncode \/ KrpcDecode \/ KrpcReencode

-----------------------------------------------------------------------------
(* merge_json (src/rpc/src/resource.rs), documented to merge "according to
   RFC 7396".  A json::Value is null, a scalar or array (which a merge treats
   alike: as a value that is no object), or an object: a map from keys to
   values. *)

\* Bound: the depth of the objects merged
MaxDepth == 2

JNull == <<"null">>
JScalar(n) == <<"scalar", n>>
JObject(f) == <<"object", f>>

IsObject(v) == v[1] = "object"

JKeys == {"a", "b"}

RECURSIVE JsonValues(_)

\* The values of depth d at most
JsonValues(d) ==
    IF d = 0 THEN {JNull, JScalar(1)}
    ELSE {JNull, JScalar(1)}
         \cup {JObject(f) : f \in UNION {[K -> JsonValues(d - 1)] : K \in SUBSET JKeys}}

RECURSIVE merge_json(_, _)

\* merge_json(original, update): what it leaves in original (o) and in
\* update (u).  The members of update are visited one by one; they have
\* different keys, so what is done for one does not depend on the others
merge_json(o, u) ==
    IF IsObject(o) /\ IsObject(u)
    THEN [o |-> JObject(
                  [k \in {x \in DOMAIN o[2] : x \notin DOMAIN u[2]}
                         \cup {x \in DOMAIN u[2] : u[2][x] # JNull} |->
                     IF k \notin DOMAIN u[2] THEN o[2][k]
                     ELSE IF k \in DOMAIN o[2] THEN merge_json(o[2][k], u[2][k]).o
                     ELSE u[2][k]]),
          u |-> JObject(
                  [k \in DOMAIN u[2] |->
                     IF u[2][k] = JNull THEN JNull
                     ELSE IF k \in DOMAIN o[2] THEN merge_json(o[2][k], u[2][k]).u
                     ELSE JNull])]
    ELSE [o |-> u, u |-> o]

RECURSIVE MergePatch(_, _)

\* RFC 7396, MergePatch(Target, Patch); absent stands for a Target that is
\* not there
MergePatch(target, patch) ==
    IF IsObject(patch)
    THEN JObject(
           [k \in {x \in (IF IsObject(target) THEN DOMAIN target[2] ELSE {}) : x \notin DOMAIN patch[2]}
                  \cup {x \in DOMAIN patch[2] : patch[2][x] # JNull} |->
              IF k \notin DOMAIN patch[2] THEN target[2][k]
              ELSE MergePatch(IF IsObject(target) /\ k \in DOMAIN target[2]
                              THEN target[2][k] ELSE <<"absent">>,
                              patch[2][k])])
    ELSE patch

JsonInit ==
    /\ jin \in [o : JsonValues(MaxDepth), u : JsonValues(MaxDepth)]
    /\ jorig = jin.o
    /\ jupd = jin.u
    /\ jdone = FALSE

JsonIdle ==
    /\ jin = [o |-> JNull, u |-> JNull]
    /\ jorig = JNull
    /\ jupd = JNull
    /\ jdone = TRUE

\* merge_json(&mut original, &mut update)
JsonMerge ==
    /\ ~jdone
    /\ jorig' = merge_json(jorig, jupd).o
    /\ jupd' = merge_json(jorig, jupd).u
    /\ jdone' = TRUE
    /\ UNCHANGED jin
    /\ UNCHANGED notJson

JsonNext == JsonMerge

-----------------------------------------------------------------------------
(* The life of a torrent (src/src/torrent/mod.rs): it is made by new or by
   deserialize, paused and resumed, and dropped.  The tracker is told with
   the events Started and Stopped. *)

\* Started and Stopped announces followed
MaxEvents == 4

\* enum Status
Statuses == {"Pending", "Paused", "Leeching", "Idle", "Seeding", "Validating", "DiskError"}

\* Torrent::start
Start(t) == [t EXCEPT !.trk = Append(@, "started")]

\* Torrent::deserialize, the match on the status read
DeserializedStatus(t) ==
    CASE t.status \in {"DiskError", "Seeding", "Leeching"} ->
            [t EXCEPT !.status = IF Complete(t) THEN "Idle" ELSE "Pending"]
      [] t.status = "Validating" -> Validate(t)
      [] OTHER -> t

\* Torrent::deserialize of the data of a torrent of this status and pieces
TorrentDeserialize(status, pieces) ==
    Start(DeserializedStatus([New(TRUE) EXCEPT !.status = status, !.pieces = pieces,
                                               !.trk = <<>>]))

\* Drop for Torrent
TorrentDrop(t) ==
    [t EXCEPT !.peers = {},
              !.trk = IF t.status = "Paused" THEN @ ELSE Append(@, "stopped")]

\* The Started and Stopped announces among those a call sent
StartStop(trk) == SelectSeq(trk, LAMBDA e : e \in {"started", "stopped"})

LifeInit ==
    /\ \/ \E created \in BOOLEAN : lt = New(created) /\ lorigin = "new"
       \/ \E status \in Statuses, pieces \in {{}, {1}, Pieces} :
             lt = TorrentDeserialize(status, pieces) /\ lorigin = status
    /\ levents = StartStop(lt.trk)
    /\ ldropped = FALSE

\* A call leaves the Torrent t
LifeCalled(t) ==
    /\ ~ldropped
    /\ Len(levents) < MaxEvents
    /\ lt' = t
    /\ levents' = levents \o StartStop(t.trk)
    /\ UNCHANGED <<lorigin, notLife>>

\* Torrent::pause
LifePause ==
    /\ LifeCalled(Pause(Fresh(lt)))
    /\ UNCHANGED ldropped

\* Torrent::resume; no peer is connected
LifeResume ==
    /\ LifeCalled(Resume(Fresh(lt), {}))
    /\ UNCHANGED ldropped

\* The Torrent is dropped
LifeDrop ==
    /\ LifeCalled(TorrentDrop(Fresh(lt)))
    /\ ldropped' = TRUE

LifeNext ==
    \/ LifePause
    \/ LifeResume
    \/ LifeDrop

\* No torrent
LifeIdle ==
    /\ lt = New(TRUE)
    /\ lorigin = "new"
    /\ levents = <<"started">>
    /\ ldropped = FALSE

-----------------------------------------------------------------------------
(* The RPC client's WebSocket frames (src/src/rpc/client.rs) *)

MaxBuffered == 3      \* bytes buffered for one message
MaxFrameData == 1    \* bytes of payload in one frame
MaxFragments == 3    \* data frames of one message

ControlMax == 125

\* The bytes of "A" and of the two-byte encoding of U+00E9
WsBytes == {65, 195, 169}

Opcodes == {"Continuation", "Text", "Binary", "Close", "Ping", "Pong", "Other"}

is_control(op) == op \in {"Close", "Ping", "Pong"}

is_other(op) == op = "Other"

\* A message as the reader hands it over: len is the payload length of its
\* header. The payload of a data frame is held; that of a control frame, of
\* no bytes or of more than ControlMax, is not
WsMessages ==
    { m \in [opcode : Opcodes, fin : BOOLEAN, ext : BOOLEAN,
             len : 0..MaxFrameData \cup {ControlMax + 1},
             data : SeqsUpTo(WsBytes, MaxFrameData)] :
        IF m.opcode \in {"Text", "Binary", "Continuation"}
        THEN m.len = Len(m.data)
        ELSE m.data = <<>> /\ m.len \in {0, ControlMax + 1} }

\* String::from_utf8 on sequences of WsBytes: 65 stands alone, 195 leads a
\* two-byte character whose second byte is 169
RECURSIVE from_utf8_ok(_)
from_utf8_ok(b) ==
    IF b = <<>> THEN TRUE
    ELSE IF b[1] = 65 THEN from_utf8_ok(Tail(b))
    ELSE IF b[1] = 195 /\ Len(b) >= 2 /\ b[2] = 169 THEN from_utf8_ok(Tail(Tail(b)))
    ELSE FALSE

NoFrag == [kind |-> "None", data |-> <<>>]

FragRes(buf, res, frame) == [buf |-> buf, res |-> res, frame |-> frame]

NoFrame == [kind |-> "None", data |-> <<>>]

\* The match of FragBuf::process with a Continuation frame put before the
\* buffered bytes
FragBufMatchPrepending(buf, m) ==
    CASE buf.kind = "None" /\ m.opcode = "Text" ->
            FragRes([kind |-> "Text", data |-> m.data], "Go", NoFrame)
      [] buf.kind = "None" /\ m.opcode = "Binary" ->
            FragRes([kind |-> "Binary", data |-> m.data], "Go", NoFrame)
      [] buf.kind = "None" /\ m.opcode = "Continuation" ->
            FragRes(NoFrag, "BadPayload", NoFrame)
      [] buf.kind # "None" /\ m.opcode = "Continuation" ->
            FragRes([buf EXCEPT !.data = m.data \o buf.data], "Go", NoFrame)
      [] buf.kind # "None" /\ m.opcode \in {"Text", "Binary"} ->
            FragRes(NoFrag, "BadPayload", NoFrame)
      [] OTHER -> FragRes(NoFrag, "Continue", NoFrame)

\* FragBuf::process, the match on (buffer, opcode): the buffer afterwards, or
\* the early return
FragBufMatch(buf, m) ==
    CASE buf.kind = "None" /\ m.opcode = "Text" ->
            FragRes([kind |-> "Text", data |-> m.data], "Go", NoFrame)
      [] buf.kind = "None" /\ m.opcode = "Binary" ->
            FragRes([kind |-> "Binary", data |-> m.data], "Go", NoFrame)
      [] buf.kind = "None" /\ m.opcode = "Continuation" ->
            FragRes(NoFrag, "BadPayload", NoFrame)
      [] buf.kind # "None" /\ m.opcode = "Continuation" ->
            FragRes([buf EXCEPT !.data = buf.data \o m.data], "Go", NoFrame)
      [] buf.kind # "None" /\ m.opcode \in {"Text", "Binary"} ->
            FragRes(NoFrag, "BadPayload", NoFrame)
      [] OTHER -> FragRes(NoFrag, "Continue", NoFrame)

\* FragBuf::process
FragBufProcess(buf, m) ==
    LET s == FragBufMatch(buf, m) IN
    IF s.res # "Go" THEN s
    ELSE IF ~m.fin THEN FragRes(s.buf, "Continue", NoFrame)
    ELSE IF s.buf.kind = "Text" /\ ~from_utf8_ok(s.buf.data)
         THEN FragRes(NoFrag, "BadPayload", NoFrame)
    ELSE FragRes(NoFrag, "Frame", s.buf)

\* Client::read_frame on a message the reader returned; wrote tells whether the
\* reply the frame asks for (a close, a pong) could be written
ReadFrame(buf, m, wrote) ==
    IF is_control(m.opcode) /\ m.len > ControlMax THEN FragRes(buf, "BadPayload", NoFrame)
    ELSE IF is_control(m.opcode) /\ ~m.fin THEN FragRes(buf, "BadPayload", NoFrame)
    ELSE IF is_other(m.opcode) THEN FragRes(buf, "BadPayload", NoFrame)
    ELSE IF m.ext THEN FragRes(buf, "BadPayload", NoFrame)
    ELSE CASE m.opcode = "Close" ->
                FragRes(buf, IF wrote THEN "Complete" ELSE "IO", NoFrame)
           [] m.opcode \in {"Text", "Binary", "Continuation"} -> FragBufProcess(buf, m)
           [] m.opcode = "Ping" ->
                FragRes(buf, IF wrote THEN "Continue" ELSE "IO", NoFrame)
           [] OTHER -> FragRes(buf, "Continue", NoFrame)

\* The results of read_frame that are errors
WsErrors == {"BadPayload", "Complete", "IO"}

\* A data frame reaches the fragment buffer
Processed(m) ==
    /\ m.opcode \in {"Text", "Binary", "Continuation"}
    /\ ~m.ext

NoMessage == [opcode |-> "Pong", fin |-> TRUE, ext |-> FALSE, len |-> 0, data |-> <<>>]

\* The last call: the header of the message read, and what came back
CLast(op, m, res, frame) ==
    [op |-> op, opcode |-> m.opcode, fin |-> m.fin, ext |-> m.ext,
     res |-> res, frame |-> frame]

ClientInit ==
    /\ fragbuf = NoFrag
    /\ clast = CLast("new", NoMessage, "Continue", NoFrame)
    /\ cframes = <<>>
    /\ cdropped = FALSE

\* One turn of the loop of Client::read on a message; an error ends the
\* connection
ClientReadFrame(m, wrote) ==
    /\ ~cdropped
    /\ Len(fragbuf.data) + Len(m.data) <= MaxBuffered
    /\ Len(cframes) < MaxFragments \/ fragbuf.kind = "None" \/ ~Processed(m)
    /\ LET r == ReadFrame(fragbuf, m, wrote) IN
        /\ fragbuf' = r.buf
        /\ clast' = CLast("frame", m, r.res, r.frame)
        /\ cframes' = IF ~Processed(m) THEN cframes
                      ELSE IF fragbuf.kind = "None" THEN <<m>>
                      ELSE Append(cframes, m)
        /\ cdropped' = (r.res \in WsErrors)
    /\ UNCHANGED notClient

\* The reader has no whole message yet: read returns Ok(None)
ClientReadNone ==
    /\ ~cdropped
    /\ clast' = CLast("none", NoMessage, "None", NoFrame)
    /\ UNCHANGED <<fragbuf, cframes, cdropped, notClient>>

\* The reader fails: the error ends the connection
ClientReadFails ==
    /\ ~cdropped
    /\ clast' = CLast("fails", NoMessage, "IO", NoFrame)
    /\ cdropped' = TRUE
    /\ UNCHANGED <<fragbuf, cframes, notClient>>

ClientNext ==
    \/ \E m \in WsMessages :
         \E wrote \in IF m.opcode \in {"Close", "Ping"} THEN BOOLEAN ELSE {TRUE} :
            ClientReadFrame(m, wrote)
    \/ ClientReadNone
    \/ ClientReadFails

ClientIdle ==
    /\ fragbuf = NoFrag
    /\ clast = CLast("new", NoMessage, "Continue", NoFrame)
    /\ cframes = <<>>
    /\ cdropped = FALSE

-----------------------------------------------------------------------------
(* A criterion on a numeric field (src/rpc/src/criterion.rs) *)

MaxNum == 2          \* the integers of fields and values run from -1 to MaxNum

\* An f32 is held as a whole number of f32::EPSILON (2^-23): 1.0 is
\* UnitsPerOne of them. On the values below every difference is a whole
\* number of units and a subtraction of f32 rounds monotonically, so the
\* comparisons of a difference with EPSILON come out as f32 computes them.
UnitsPerOne == 8388608

EPSILON == 1

Operations == {"Eq", "Neq", "GT", "GTE", "LT", "LTE", "Like"}

FieldN(n) == [t |-> "N", v |-> n]

FieldF(u) == [t |-> "F", v |-> u]

\* 0, EPSILON, 2 EPSILON, 0.5, 1, 1 + EPSILON, 1 + 2 EPSILON, 2 and -1
Floats ==
    {0, EPSILON, 2 * EPSILON, UnitsPerOne \div 2, UnitsPerOne, UnitsPerOne + EPSILON,
     UnitsPerOne + 2 * EPSILON, 2 * UnitsPerOne, 0 - UnitsPerOne}

Numbers == {FieldN(n) : n \in (0 - 1)..MaxNum} \cup {FieldF(u) : u \in Floats}

\* `as f32` of an i64 (exact below 2^24)
AsF32(n) == n * UnitsPerOne

\* Criterion::match_field, the arms of two numbers
match_field(field, op, value) ==
    IF field.t = "N" /\ value.t = "N"
    THEN CASE op = "Eq" -> field.v = value.v
           [] op = "Neq" -> field.v # value.v
           [] op = "GTE" -> field.v >= value.v
           [] op = "GT" -> field.v > value.v
           [] op = "LTE" -> field.v <= value.v
           [] op = "LT" -> field.v < value.v
           [] OTHER -> FALSE
    ELSE LET f == IF field.t = "N" THEN AsF32(field.v) ELSE field.v
             v == IF value.t = "N" THEN AsF32(value.v) ELSE value.v
         IN CASE op = "Eq" -> f - v <= EPSILON
              [] op = "Neq" -> f - v > EPSILON
              [] op = "GTE" -> f >= v
              [] op = "GT" -> f > v
              [] op = "LTE" -> f <= v
              [] op = "LT" -> f < v
              [] OTHER -> FALSE

QLast(op, res) == [op |-> op, res |-> res]

CriterionInit ==
    /\ qfield \in Numbers
    /\ qvalue \in Numbers
    /\ qlast = QLast("none", FALSE)

\* Criterion::matches on a resource that has the field
CriterionMatches(op) ==
    /\ qlast' = QLast(op, match_field(qfield, op, qvalue))
    /\ UNCHANGED <<qfield, qvalue, notCriterion>>

CriterionNext == \E op \in Operations : CriterionMatches(op)

CriterionIdle ==
    /\ qfield = FieldN(0)
    /\ qvalue = FieldN(0)
    /\ qlast = QLast("none", FALSE)

-----------------------------------------------------------------------------
(* Specifications: one per component, the other components at rest *)

vars == <<readerVars, cacheVars, httpVars, udpVars, torrentVars, codecVars, respVars, filesVars, pickerVars, sessionVars, krpcVars, jsonVars, lifeVars, clientVars, criterionVars>>

InitReader == ReaderInit /\ CacheIdle /\ HttpIdle /\ UdpIdle /\ TorrentIdle /\ CodecIdle /\ RespIdle /\ FilesIdle /\ PickerIdle /\ SessionIdle /\ KrpcIdle /\ JsonIdle /\ LifeIdle /\ ClientIdle /\ CriterionIdle

SpecReader == InitReader /\ [][ReaderNext]_vars

InitCache == CacheInit /\ ReaderIdle /\ HttpIdle /\ UdpIdle /\ TorrentIdle /\ CodecIdle /\ RespIdle /\ FilesIdle /\ PickerIdle /\ SessionIdle /\ KrpcIdle /\ JsonIdle /\ LifeIdle /\ ClientIdle /\ CriterionIdle

SpecCache == InitCache /\ [][CacheNext]_vars

InitHttp == HttpInit /\ ReaderIdle /\ CacheIdle /\ UdpIdle /\ TorrentIdle /\ CodecIdle /\ RespIdle /\ FilesIdle /\ PickerIdle /\ SessionIdle /\ KrpcIdle /\ JsonIdle /\ LifeIdle /\ ClientIdle /\ CriterionIdle

SpecHttp == InitHttp /\ [][HttpNext]_vars

InitUdp == UdpInit /\ ReaderIdle /\ CacheIdle /\ HttpIdle /\ TorrentIdle /\ CodecIdle /\ RespIdle /\ FilesIdle /\ PickerIdle /\ SessionIdle /\ KrpcIdle /\ JsonIdle /\ LifeIdle /\ ClientIdle /\ CriterionIdle

SpecUdp == InitUdp /\ [][UdpNext]_vars

InitDecoder == DecoderInit /\ CacheIdle /\ HttpIdle /\ UdpIdle /\ TorrentIdle /\ CodecIdle /\ RespIdle /\ FilesIdle /\ PickerIdle /\ SessionIdle /\ KrpcIdle /\ JsonIdle /\ LifeIdle /\ ClientIdle /\ CriterionIdle

SpecDecoder == InitDecoder /\ [][DecoderNext]_vars

InitFraming == FramingInit /\ CacheIdle /\ HttpIdle /\ UdpIdle /\ TorrentIdle /\ CodecIdle /\ RespIdle /\ FilesIdle /\ PickerIdle /\ SessionIdle /\ KrpcIdle /\ JsonIdle /\ LifeIdle /\ ClientIdle /\ CriterionIdle

SpecFraming == InitFraming /\ [][FramingNext]_vars

InitTorrent == TorrentInit /\ ReaderIdle /\ CacheIdle /\ HttpIdle /\ UdpIdle /\ CodecIdle /\ RespIdle /\ FilesIdle /\ PickerIdle /\ SessionIdle /\ KrpcIdle /\ JsonIdle /\ LifeIdle /\ ClientIdle /\ CriterionIdle

SpecTorrent == InitTorrent /\ [][TorrentNext]_vars

SpecBlocks == InitTorrent /\ [][BlocksNext]_vars

SpecAnnounce == InitTorrent /\ [][AnnounceNext]_vars

InitCodec == CodecInit /\ ReaderIdle /\ CacheIdle /\ HttpIdle /\ UdpIdle /\ TorrentIdle /\ RespIdle /\ FilesIdle /\ PickerIdle /\ SessionIdle /\ KrpcIdle /\ JsonIdle /\ LifeIdle /\ ClientIdle /\ CriterionIdle

SpecCodec == InitCodec /\ [][CodecNext]_vars

InitResp == RespInit /\ ReaderIdle /\ CacheIdle /\ HttpIdle /\ UdpIdle /\ TorrentIdle /\ CodecIdle /\ FilesIdle /\ PickerIdle /\ SessionIdle /\ KrpcIdle /\ JsonIdle /\ LifeIdle /\ ClientIdle /\ CriterionIdle

SpecResp == InitResp /\ [][RespNext]_vars

InitFiles == FilesInit /\ ReaderIdle /\ CacheIdle /\ HttpIdle /\ UdpIdle /\ TorrentIdle /\ CodecIdle /\ RespIdle /\ PickerIdle /\ SessionIdle /\ KrpcIdle /\ JsonIdle /\ LifeIdle /\ ClientIdle /\ CriterionIdle

SpecFiles == InitFiles /\ [][FilesNext]_vars

InitPicker == PickerInit /\ ReaderIdle /\ CacheIdle /\ HttpIdle /\ UdpIdle /\ TorrentIdle /\ CodecIdle /\ RespIdle /\ FilesIdle /\ SessionIdle /\ KrpcIdle /\ JsonIdle /\ LifeIdle /\ ClientIdle /\ CriterionIdle

SpecPicker == InitPicker /\ [][PickerNext]_vars

InitSession == SessionInit /\ ReaderIdle /\ CacheIdle /\ HttpIdle /\ UdpIdle /\ TorrentIdle /\ CodecIdle /\ RespIdle /\ FilesIdle /\ PickerIdle /\ KrpcIdle /\ JsonIdle /\ LifeIdle /\ ClientIdle /\ CriterionIdle

SpecSession == InitSession /\ [][SessionNext]_vars

InitKrpc == KrpcInit /\ ReaderIdle /\ CacheIdle /\ HttpIdle /\ UdpIdle /\ TorrentIdle /\ CodecIdle /\ RespIdle /\ FilesIdle /\ PickerIdle /\ SessionIdle /\ JsonIdle /\ LifeIdle /\ ClientIdle /\ CriterionIdle

SpecKrpc == InitKrpc /\ [][KrpcNext]_vars

InitJson == JsonInit /\ ReaderIdle /\ CacheIdle /\ HttpIdle /\ UdpIdle /\ TorrentIdle /\ CodecIdle /\ RespIdle /\ FilesIdle /\ PickerIdle /\ SessionIdle /\ KrpcIdle /\ LifeIdle /\ ClientIdle /\ CriterionIdle

SpecJson == InitJson /\ [][JsonNext]_vars

InitLife == LifeInit /\ ReaderIdle /\ CacheIdle /\ HttpIdle /\ UdpIdle /\ TorrentIdle /\ CodecIdle /\ RespIdle /\ FilesIdle /\ PickerIdle /\ SessionIdle /\ KrpcIdle /\ JsonIdle /\ ClientIdle /\ CriterionIdle

SpecLife == InitLife /\ [][LifeNext]_vars

InitClient == ClientInit /\ ReaderIdle /\ CacheIdle /\ HttpIdle /\ UdpIdle /\ TorrentIdle /\ CodecIdle /\ RespIdle /\ FilesIdle /\ PickerIdle /\ SessionIdle /\ KrpcIdle /\ JsonIdle /\ LifeIdle /\ CriterionIdle

SpecClient == InitClient /\ [][ClientNext]_vars

InitCriterion == CriterionInit /\ ReaderIdle /\ CacheIdle /\ HttpIdle /\ UdpIdle /\ TorrentIdle /\ CodecIdle /\ RespIdle /\ FilesIdle /\ PickerIdle /\ SessionIdle /\ KrpcIdle /\ JsonIdle /\ LifeIdle /\ ClientIdle

SpecCriterion == InitCriterion /\ [][CriterionNext]_vars

-----------------------------------------------------------------------------
(* Claims about the Reader *)

\* The bytes of the message being read that the Reader holds
Retained(r) ==
    CASE r.state = "Handshake" -> Take(r.data, r.idx)
      [] r.state = "Bitfield" -> Take(r.prefix, 5) \o Take(r.data, r.idx)
      [] r.state = "Piece" -> Take(r.prefix, 13) \o Take(r.data, r.idx)
      [] r.state = "Extension" -> Take(r.prefix, 6) \o Take(r.data, r.idx)
      [] OTHER -> Take(r.prefix, r.idx)

\* One message per message sent, in the order sent
OnePerFrame == nEmitted = (IF pos = Len(stream) THEN nSent ELSE nSent - 1)

\* The one-chunk Reader returns a message for everything sent, and the Reader
\* fed in chunks returns the same message and is left in the same state
SameAsOneChunk ==
    /\ refOut # NoMsg
    /\ pos = Len(stream) => out = refOut /\ rd = ref

\* A call that ended inside a message kept every byte it read
KeepsBytes == pos < Len(stream) => Retained(rd) = Take(stream, pos)

\* The Reader is waiting for a pooled buffer for the payload of a Piece
AwaitsBuffer == rd.state = "Piece" /\ ~rd.hasBuf /\ rd.idx = 0

SameMessage(d, m) ==
    IF m.type = "Bitfield"
    THEN d = MBitfield(BitfieldFrom(m.bf.data, 8 * Len(m.bf.data)))
    ELSE d = m

\* What a Reader at the start of cur returns when given all its bytes
FedWhole == Readable(rd, stream, pool)

CalledAgain(k, p) == Readable(rd, SubSeq(stream, pos + 1, pos + k), p)

\* C14: when readable returned Stalled the Reader has read the 13 bytes of the
\* header of a Piece and no byte of its payload, and holds them; called again
\* while the pool is still empty it stalls again and changes nothing; called
\* once a buffer is free it reads the payload from its first byte and, given
\* all of it, returns the Piece that was sent: same index, begin and payload,
\* every byte of the frame read once.
C14_StalledKeepsThePiece ==
    rres = "Stalled" =>
        /\ cur.type = "Piece"
        /\ AwaitsBuffer
        /\ pos = 13
        /\ Retained(rd) = Take(stream, 13)
        /\ \A k \in 0..(Len(stream) - pos) :
              /\ CalledAgain(k, 0).ret = "Stalled"
              /\ CalledAgain(k, 0).used = 0
              /\ CalledAgain(k, 0).rd = rd
              /\ CalledAgain(k, 1).used = k
              /\ CalledAgain(k, 1).ret = (IF k = Len(stream) - pos THEN "Success" ELSE "Blocked")
              /\ k = Len(stream) - pos => CalledAgain(k, 1).msg = cur

\* C14 witness: the Reader stalled on a Piece and a buffer has since returned
\* to the pool
C14_Witness ==
    /\ rres = "Stalled"
    /\ cur.type = "Piece"
    /\ pool > 0
    /\ nEmitted = 1

-----------------------------------------------------------------------------
(* Claims about the file cache *)

\* C3: a FileCache of max_size C never holds more than C entries, since every
\* insertion into a full cache closes exactly one existing entry (so that N
\* insertions beyond capacity close N - C entries).
C3_NeverMoreThanMaxSize ==
    /\ Cardinality(DOMAIN files) <= max_size
    /\ last.inserted /\ last.wasFull => Cardinality(last.closed) = 1
    /\ nInserted >= max_size => nInserted - nClosed <= max_size

\* The last call found the entry of path in the cache and left it there
HitOn(path) ==
    /\ last.op \in {"read", "write"}
    /\ last.path = path
    /\ last.ok
    /\ ~last.inserted

\* C4: with capacity 2, after opening A (path 2) and B (path 3), accessing A
\* again and then opening C (path 1), A and C are cached and B is not.
C4_HitProtectsFromEviction ==
    [][(/\ max_size = 2
        /\ nInserted = 2 /\ nClosed = 0
        /\ DOMAIN files = {2, 3}
        /\ HitOn(2)
        /\ last'.inserted /\ last'.path = 1)
       => DOMAIN files' = {2, 1}]_vars

-----------------------------------------------------------------------------
(* Claims about the HTTP tracker handler *)

\* A connection of the announce of torrent t is open
Pending(t) == \E id \in DOMAIN connections : connections[id].torrent = t

\* C5: a redirect is followed at most once per announce; once the announce
\* has been answered with TooManyRedirects, that is its last result and no
\* connection is created or left pending for it.
C5_RedirectFollowedOnce ==
    \A t \in Torrents :
        /\ followed[t] <= 1
        /\ \A i \in 1..Len(ended[t]) :
              ended[t][i] = "TooManyRedirects" => i = Len(ended[t]) /\ ~Pending(t)

-----------------------------------------------------------------------------
(* Claims about the UDP tracker handler *)

\* C6 as stated: an announce that has not completed is given up no later than
\* 15 seconds in total after it was started, plus at most one tick period.
C6_GivenUp15sAfterStart ==
    \A id \in DOMAIN uconnections :
        /\ uconnections[id].born <= UDP_TIMEOUT_MS + RETRANS_MS
        /\ ticked => uconnections[id].born <= UDP_TIMEOUT_MS

\* C6, amended: an announce that has not completed is given up with a Timeout
\* response no later than 15 seconds (plus at most one tick period) after the
\* latest of its start, the answer to its DNS query and the connect response
\* that made it send its announce request.
C6_GivenUp15sAfterProgress ==
    /\ \A id \in DOMAIN uconnections :
          /\ uconnections[id].quiet <= UDP_TIMEOUT_MS + RETRANS_MS
          /\ ticked => uconnections[id].quiet <= UDP_TIMEOUT_MS
    /\ ulast.op = "tick" =>
          \A i \in 1..Len(uresps) : uresps[i].res \in {"Timeout", "SendTo"}

\* C6 witness: tick has given up an announce with a Timeout response
C6_Witness ==
    /\ ulast.op = "tick"
    /\ \E i \in 1..Len(uresps) : uresps[i].res = "Timeout"

\* C7: an announce request is sent only for an announce that received, while
\* Connecting, a connect response with the transaction id of its connect
\* request, and it carries the connection id of such a response.
C7_AnnounceAfterConnect ==
    /\ \A id \in DOMAIN uconnections :
          uconnections[id].state = "Announcing" =>
              uconnections[id].cid \in uconnections[id].heard
    /\ \A i \in 1..Len(sent) :
          sent[i].action = 1 =>
              /\ sent[i].id \in DOMAIN uconnections
              /\ sent[i].cid \in uconnections[sent[i].id].heard

\* C7 witness: readable has sent an announce request
C7_Witness ==
    /\ ulast.op = "readable"
    /\ \E i \in 1..Len(sent) : sent[i].action = 1 /\ sent[i].cid = 9

\* The connections as the handler holds them
Held(conns) ==
    [id \in DOMAIN conns |->
        [torrent |-> conns[id].torrent, state |-> conns[id].state,
         tid |-> conns[id].tid, cid |-> conns[id].cid,
         upd |-> conns[id].upd, ret |-> conns[id].ret]]

\* C8: a datagram whose transaction id is not in the transaction map yields no
\* Response and leaves the connections and the transaction map as they were.
C8_UnknownTransactionDiscarded ==
    [][(ulast'.op = "readable" /\ ~ulast'.known) =>
          /\ uresps' = <<>>
          /\ sent' = <<>>
          /\ Held(uconnections') = Held(uconnections)
          /\ transactions' = transactions]_vars

\* C8 witness: a datagram with an unknown transaction id was received while
\* an announce was waiting for a response
C8_Witness ==
    /\ ulast.op = "readable"
    /\ ~ulast.known
    /\ DOMAIN transactions # {}
    /\ \E id \in DOMAIN uconnections : uconnections[id].state # "ResolvingDNS"

-----------------------------------------------------------------------------
(* Claims about the torrent *)

\* The last call sent RPC a status update that carries an error
ErrorReported == \E i \in 1..Len(tor.rpc) : tor.rpc[i].error

\* A peer message or a disk response handled in DiskError leaves the status,
\* sends no Request and writes nothing to the disk
HaltedInDiskError ==
    (tlast.was = "DiskError" /\ tlast.op \in {"peer_ev", "disk_resp"}) =>
        /\ tor.status = "DiskError"
        /\ tor.req = {}
        /\ tor.wr = 0

\* C9 as stated: after a disk Error response the status is DiskError and a
\* status update carrying an error is emitted; from then on peer messages and
\* disk responses make the torrent send no Request and write nothing.
C9_DiskErrorReportedAndHalts ==
    /\ (tlast.op = "disk_resp" /\ tlast.kind = "Error") =>
          tor.status = "DiskError" /\ ErrorReported
    /\ HaltedInDiskError

\* C9, amended: the status update carrying an error is emitted unless the
\* status was DiskError already, and then no update is emitted.
C9_DiskErrorReportedOnceAndHalts ==
    /\ (tlast.op = "disk_resp" /\ tlast.kind = "Error") =>
          /\ tor.status = "DiskError"
          /\ ErrorReported <=> tlast.was # "DiskError"
    /\ HaltedInDiskError

\* C9 witness: a disk Error response handled while leeching from a peer
C9_Witness ==
    /\ tlast.op = "disk_resp"
    /\ tlast.kind = "Error"
    /\ tlast.was = "Leeching"
    /\ tor.peers # {}
    /\ tor.pieces # {}
    /\ ErrorReported

\* C10: while a Validate request is unanswered the status is Validating,
\* unless the user paused the torrent (or the disk failed) since it was sent.
C10_ValidatingUntilAnswered ==
    (tor.val > 0 /\ ~tor.excused) => tor.status = "Validating"

\* C11: when ValidationComplete reports invalid pieces, none of them is
\* marked as possessed any more, so that the torrent is not complete and a
\* block of such a piece received afterwards is written to the disk.
C11_InvalidPiecesNotPossessed ==
    (tlast.op = "disk_resp" /\ tlast.kind = "ValidationComplete") =>
        tlast.pieces \cap tor.pieces = {}

\* C12: a Read completion for a peer that is not in the torrent any more is
\* discarded: nothing is sent and the torrent, its dirty flag and its uploaded
\* counter among the rest, is left as it was.
C12_ReadForRemovedPeerDiscarded ==
    [][(tlast'.op = "disk_resp" /\ tlast'.kind = "Read"
            /\ tlast'.pid \notin tor.peers) =>
          tor' = Fresh(tor)]_vars

\* C12 witness: a Read completion for a peer that is gone, handled by a
\* seeding torrent that still has another peer
C12_Witness ==
    /\ tlast.op = "disk_resp"
    /\ tlast.kind = "Read"
    /\ tlast.pid \notin tor.peers
    /\ tor.peers # {}
    /\ tor.status = "Seeding"
    /\ tor.msgs = {}

-----------------------------------------------------------------------------
(* Claims about the Reader fed frames around the limits *)

\* The message ids of the protocol
ValidIds == 0..9 \cup {20}

\* The payload of the frame sent is longer than the limit of its kind
OverLimit(raw) ==
    \/ raw.id \in {5, 7} /\ Payload(raw.id, raw.mlen) > BUF_SIZE
    \/ raw.id = 20 /\ Payload(raw.id, raw.mlen) > MAX_EXT_MSG_BYTES

\* Where the Reader is in the stream once it has read what tells it to refuse
RefusedAt(raw) ==
    IF raw.good THEN HANDSHAKE_LEN + HeaderLen(raw.id) ELSE HANDSHAKE_LEN

\* A stream that is to be refused gets Err as soon as its head is read and
\* nothing after the head is read; any other stream gets no Err; the only
\* message returned is the handshake
Decoded(refused) ==
    /\ nEmitted = (IF cur.good /\ pos >= HANDSHAKE_LEN THEN 1 ELSE 0)
    /\ refused => /\ pos <= RefusedAt(cur)
                  /\ pos = RefusedAt(cur) <=> rres = "Err"
    /\ ~refused => rres # "Err"

\* C13 as stated: Err, no message and no payload read for a wrong protocol
\* string, an unknown message id, and a Bitfield, Piece or Extension payload
\* over its limit; a payload at or below its limit is accepted.
C13_RefusesOverLimitOnly ==
    Decoded(~cur.good \/ cur.id \notin ValidIds \/ OverLimit(cur))

\* C13, amended: the same, except that a Bitfield frame is refused when its
\* payload and its id byte together are over the limit, so a Bitfield payload
\* of exactly the limit is refused too.
C13_RefusesOverLimitAndFullBitfield ==
    /\ Decoded(~cur.good \/ cur.id \notin ValidIds \/ OverLimit(cur)
               \/ (cur.id = 5 /\ Payload(5, cur.mlen) = BUF_SIZE))
    /\ ~BitfieldTooLong(BUF_SIZE)
    /\ ~PieceTooLong(BUF_SIZE + 9)
    /\ ~ExtensionTooLong(MAX_EXT_MSG_BYTES + 2)

\* C13 witness: a Piece frame whose block is one byte over the limit was
\* refused when its 13-byte head had been read
C13_Witness ==
    /\ cur.type = "Raw"
    /\ cur.id = 7
    /\ cur.mlen = BUF_SIZE + 10
    /\ pos = HANDSHAKE_LEN + 13
    /\ rres = "Err"
    /\ nEmitted = 1

-----------------------------------------------------------------------------
(* Claims about the codec *)

\* C15: for every typed message, Message::len is the number of bytes of its
\* wire encoding: 68 for a handshake, otherwise 4 plus the length prefix that
\* Message::encode writes; and but for a Piece, whose payload follows its
\* header, it is the number of bytes encode writes.
C15_LenIsWireLength ==
    cmsg.type # "None" =>
        /\ clen = (IF cmsg.type = "Handshake" THEN 68 ELSE 4 + ReadU32(cbuf, 0))
        /\ cmsg.type # "Piece" => clen = Len(cbuf)

-----------------------------------------------------------------------------
(* Claims about the blocks a peer delivers *)

\* The last call was peer_ev with a Piece whose block went to the disk
BlockTaken == tlast.op = "peer_ev" /\ tlast.kind = "Piece" /\ tor.wr > 0

\* The peers the last call sent a message of this kind
SentTo(kind) == {q \in Peers : ToPeer(q, kind) \in tor.msgs}

\* C16: when a block arrives from a peer it was requested from and at least
\* one other peer was asked for it too, a Cancel is sent to every other peer
\* waiting on it and none to the peer that delivered it.
C16_CancelToOtherRequesters ==
    (BlockTaken /\ tlast.pid \in tlast.msg.requesters
                /\ tlast.msg.requesters # {tlast.pid}) =>
        SentTo("Cancel") = tlast.msg.requesters \ {tlast.pid}

\* C16 witness: peer 1 delivered a block that peer 2 was asked for too
C16_Witness ==
    /\ BlockTaken
    /\ tlast.pid = 1
    /\ tlast.msg.requesters = {1, 2}
    /\ ToPeer(2, "Cancel") \in tor.msgs

\* C17: when a block completes a piece, every connected peer whose bitfield
\* holds no piece the torrent still lacks is told Uninterested, the peer that
\* delivered the block among them.
C17_UninterestedToAllConnected ==
    (BlockTaken /\ tlast.msg.done) =>
        SentTo("Uninterested") = tlast.msg.useless

-----------------------------------------------------------------------------
(* Claims about the dirty flag *)

\* The step changes what serialize persists: the pieces, the status, the
\* uploaded or the downloaded counter
SessionChanged ==
    \/ tor'.pieces # tor.pieces
    \/ tor'.status # tor.status
    \/ tor'.up > 0
    \/ tor'.down > 0

\* C18: every operation that changes the persisted session state leaves the
\* dirty flag true, and only serialize clears the flag.
C18_ChangesLeaveDirty ==
    [][/\ SessionChanged => tor'.dirty
       /\ (tor.dirty /\ ~tor'.dirty) => tor'.ser]_vars

-----------------------------------------------------------------------------
(* Claims about the tracker of a torrent *)

\* The last call was set_tracker_response with an error
AnnounceFailed ==
    tlast.op = "set_tracker_response" /\ tlast.kind \in {"Failure", "Error"}

\* update_tracker sends an announce once the time that is set, if any, has come
RetryDispatched == UpdateTracker(Fresh(IntervalOver(tor))).trk = <<"interval">>

\* C19: after set_tracker_response receives an error the status of the torrent
\* is unchanged, the tracker is marked failed and update_tracker, called once
\* enough time has passed, sends another announce, whether or not an earlier
\* announce had succeeded.
C19_FailedAnnounceRetried ==
    AnnounceFailed =>
        /\ tor.status = tlast.was
        /\ tor.tracker \in {"Failure", "Error"}
        /\ RetryDispatched

-----------------------------------------------------------------------------
(* Claims about the states of an HTTP announce *)

\* next may make the state b out of the state a: the same state or the one
\* that follows it in the order ResolvingDNS, Writing, Reading, then Complete
\* or Redirect; an Err ends the announce from any state
Follows(a, b) ==
    \/ b = "Err"
    \/ a = "ResolvingDNS" /\ b \in {"ResolvingDNS", "Writing"}
    \/ a = "Writing" /\ b \in {"Writing", "Reading"}
    \/ a = "Reading" /\ b \in {"Reading", "Complete", "Redirect"}

\* Every state of the sequence follows the one before
InOrder(states) == \A i \in 1..(Len(states) - 1) : Follows(states[i], states[i + 1])

\* The sequence ends in the state next returns
EndsIn(states, n) == states # <<>> /\ states[Len(states)] = n.state

\* The states next made out of the state st come in order and end in n
OrderedTo(st, states, n) == InOrder(<<st>> \o states) /\ EndsIn(states, n)

\* Readable and Writable leave the state ResolvingDNS as it is
StaysResolving(io) ==
    \A event \in {"Readable", "Writable"} :
        /\ Handle("ResolvingDNS", event, io).state = "ResolvingDNS"
        /\ Handle("ResolvingDNS", event, io).res = "None"

\* The states the connections are in
StatesHeld == {connections[id].state : id \in DOMAIN connections}

\* enum TrackerState
TrackerStates == {"Error", "ResolvingDNS", "Writing", "Reading", "Redirect", "Complete"}

\* Whatever the event and whatever the network answers, the states next makes
\* out of st come in order, and Readable and Writable leave ResolvingDNS as it is
OrderedFrom(st) ==
    /\ \A io \in RWAnswers :
          /\ OrderedTo(st, RWVisits(St(st, "", 1, 1), io), NextRW(St(st, "", 1, 1), io))
          /\ st = "ResolvingDNS" => StaysResolving(io)
    /\ \A io \in DnsAnswers :
          OrderedTo(st, DNSVisits(St(st, "", 1, 1), io), NextDNS(St(st, "", 1, 1), io))

\* The states from which next keeps the order
OrderedStates == {st \in TrackerStates : OrderedFrom(st)}

\* C20: whatever the event and whatever the network answers, the states next
\* makes out of the state of a connection come in the order ResolvingDNS,
\* Writing, Reading, then Complete or Redirect, none skipped and none gone
\* back to; Readable and Writable leave a connection that is in ResolvingDNS
\* in ResolvingDNS.
C20_StatesInOrder == StatesHeld \subseteq OrderedStates

\* C20 witness: the connection of a redirect has gone from ResolvingDNS
\* through Writing to Reading
C20_Witness ==
    \E id \in DOMAIN connections :
        /\ connections[id].redirect
        /\ connections[id].state = "Reading"


-----------------------------------------------------------------------------
(* Claims about the timeout of an HTTP announce *)

\* The Timeout responses among rs that are for the announce of torrent t
Timeouts(rs, t) ==
    Cardinality({i \in DOMAIN rs : rs[i] = Response(t, "Timeout")})

\* C21 as stated: a tick removes every announce dispatched more than 5
\* seconds ago and reports exactly one Timeout for its torrent, however the
\* tracker paced its bytes since the dispatch.
C21_RemovedAfterDispatch ==
    [][HttpTick =>
         \A id \in DOMAIN connections :
            connections[id].since > HTTP_TIMEOUT_MS =>
               /\ id \notin DOMAIN connections'
               /\ Timeouts(resps', connections[id].torrent) = 1]_vars

\* C21 amended: a tick removes exactly the announces whose connection has
\* handled no event (DNS answer, readable, writable) for more than 5 seconds,
\* reports exactly one Timeout for the torrent of each, and leaves the others
\* as they are; so after a tick no pending announce has been left alone for
\* more than 5 seconds.
C21_RemovedAfterLastEvent ==
    [][HttpTick =>
         \A id \in DOMAIN connections :
            IF connections[id].age > HTTP_TIMEOUT_MS
            THEN /\ id \notin DOMAIN connections'
                 /\ Timeouts(resps', connections[id].torrent) = 1
            ELSE /\ id \in DOMAIN connections'
                 /\ connections'[id] = connections[id]
                 /\ Timeouts(resps', connections[id].torrent) = 0]_vars

\* A tick has timed an announce out, and that is all that was reported for it
C21_Witness ==
    \E t \in Torrents :
        /\ resps = <<Response(t, "Timeout")>>
        /\ ended[t] = <<"Timeout">>

\* An announce dispatched more than 5 seconds ago is pending, and its
\* connection handled an event since time last passed
C21_KeptAlive ==
    \E id \in DOMAIN connections :
        connections[id].since > HTTP_TIMEOUT_MS /\ connections[id].age = 0

-----------------------------------------------------------------------------
(* Claims about the reader of an HTTP response *)

\* The bytes of the body that have arrived
BodyArrived == SubSeq(ResponseWire(hresp), hresp.hl + 1, harrived)

\* The header has arrived whole, is well formed and is no redirect
HeaderDone ==
    /\ harrived >= hresp.hl
    /\ hresp.line = 5
    /\ hresp.code \notin RedirectCodes

\* A call of readable has met the end of the connection (a clean EOF or an
\* UnexpectedEof) or has returned for good before
EndSeen == hend \in {"eof", "unexpected"} /\ ~Reading

\* C22: when the connection ends (EOF or UnexpectedEof) after the header
\* has been parsed, readable returns Done with exactly the body bytes that
\* arrived, however the response was split across reads, and Done is
\* returned in no other case; when the connection ends before the header is
\* complete, readable returns an error.
C22_DoneAtEndWithBody ==
    /\ hres.tag = "Done" =>
          /\ hend \in {"eof", "unexpected"}
          /\ HeaderDone
          /\ hres.data = BodyArrived
    /\ (EndSeen /\ HeaderDone) => hres.tag = "Done"
    /\ (EndSeen /\ harrived < hresp.hl) => hres.tag = "Err"

\* The part of C22 the Reader keeps: Done holds the body bytes read so far,
\* and a connection that ends before the header is complete gives an error
C22_DoneHoldsBytesRead ==
    /\ hres.tag = "Done" =>
          /\ HeaderDone
          /\ hres.data = SubSeq(ResponseWire(hresp), hresp.hl + 1, htaken)
    /\ (EndSeen /\ harrived < hresp.hl) => hres.tag = "Err"

\* readable has returned Done while bytes of the body wait at the socket
C22_DoneTooSoon ==
    /\ hres.tag = "Done"
    /\ htaken < harrived

\* readable has returned Done with a whole body, read in more than one piece
C22_DoneWhole ==
    /\ hres.tag = "Done"
    /\ hresp.bl = MaxBody
    /\ hres.data = BodyBytes(hresp.bl)
    /\ hresp.hl = ReaderDataLen

-----------------------------------------------------------------------------
(* Claims about the role of a cached path and about reads of missing files *)

\* The call the step made: op on path p, as last records it
CallOf(op, p) == last'.op = op /\ last'.path = p

\* C23: the role of a cached path only moves from ReadOnly to ReadWrite. An
\* entry that is ReadWrite and stays in the map stays ReadWrite; a
\* successful write_file_range on a path cached ReadOnly closes the old
\* handle and leaves the entry of that path in state ReadWrite, one handle
\* open per entry; a read_file_range on a ReadWrite entry leaves the entry
\* as it is.
C23_RoleOnlyUpgrades ==
    [][\A p \in Paths :
         /\ (p \in DOMAIN files /\ p \in DOMAIN files' /\ files[p].state = "ReadWrite")
               => files'[p].state = "ReadWrite"
         /\ (p \in DOMAIN files /\ files[p].state = "ReadOnly" /\ CallOf("write", p)
             /\ last'.ok)
               => /\ p \in last'.closed
                  /\ p \in DOMAIN files'
                  /\ files'[p].state = "ReadWrite"
                  /\ nInserted' - nClosed' = Cardinality(DOMAIN files')
         /\ (p \in DOMAIN files /\ files[p].state = "ReadWrite" /\ CallOf("read", p))
               => /\ last'.ok
                  /\ files' = files]_vars

\* A write has turned the ReadOnly entry of its path into a ReadWrite one
C23_Witness ==
    /\ last.op = "write"
    /\ last.ok
    /\ last.path \in last.closed
    /\ last.path \in DOMAIN files
    /\ files[last.path].state = "ReadWrite"

\* A read has been served by a ReadWrite entry
C23_ReadOfReadWrite ==
    /\ last.op = "read"
    /\ last.ok
    /\ ~last.inserted
    /\ last.path \in DOMAIN files
    /\ files[last.path].state = "ReadWrite"

\* C24: read_file_range on a path that does not exist returns an error,
\* creates nothing in the file system, and leaves no entry for that path.
C24_ReadOfMissingFile ==
    [][\A p \in Paths :
         (CallOf("read", p) /\ p \notin disk)
            => /\ ~last'.ok
               /\ disk' = disk
               /\ p \notin DOMAIN files']_vars

\* A read of a missing file has failed, with the cache full at the call
C24_Witness ==
    /\ last.op = "read"
    /\ ~last.ok
    /\ last.path \notin disk
    /\ last.path \notin DOMAIN files
    /\ last.wasFull

-----------------------------------------------------------------------------
(* Claims about the contents of the files behind the cache *)

\* The step is a successful call op of the cache
Did(op) == flast'.op = op /\ flast'.ok

\* The offsets of the range the step's call was made for
RangeOf(l) == (l.offset + 1)..(l.offset + Len(l.buf))

\* C25: writing the same bytes to the same path and offset a second time
\* leaves every file as the first write left it; and a read of a range
\* written before succeeds and returns, for every byte of the range, the
\* byte last written there, whatever evictions, upgrades from read-only to
\* read-write and allocations came between.
C25_WritesIdempotentReadsLatest ==
    [][/\ (Did("write") /\ flast.op = "write" /\ flast.ok
           /\ flast'.path = flast.path /\ flast'.offset = flast.offset
           /\ flast'.buf = flast.buf)
             => fdisk' = fdisk
       /\ (flast'.op = "read" /\ flast'.path \in FilePaths
           /\ \A i \in RangeOf(flast') : fwritten[flast'.path][i] # 0)
             => /\ flast'.ok
                /\ flast'.data = [j \in 1..Len(flast'.buf) |->
                                     fwritten[flast'.path][flast'.offset + j]]]_vars

\* A byte written and then written over was read back through a read-only
\* entry opened after the writing entry was evicted
C25_Witness ==
    /\ flast.op = "read"
    /\ flast.ok
    /\ flast.data = <<1, 2>>
    /\ fwritten[flast.path] = <<1, 2>>
    /\ fcache[flast.path].state = "ReadOnly"
    /\ flast.path = 1

\* The same write was made twice, the second through a ReadWrite entry the
\* first had inserted
C25_WrittenTwice ==
    /\ flast.op = "write"
    /\ flast.ok
    /\ flast.path = 1
    /\ fdisk[1] = <<0, 1>>

-----------------------------------------------------------------------------
(* Claims about the picker after a failed hash check *)

\* The step is a pick for the peer, made right after piece i, which the peer
\* has, was invalidated
PickAfterInvalidate(i) ==
    /\ plast.op = "invalidate"
    /\ plast.piece = i
    /\ i \in pbits[1]
    /\ plast'.op = "pick"

-----------------------------------------------------------------------------
(* Claims about the migration of a session written in an older format *)

Loaded == sres.tag \notin {"none", "idle"}

\* C27: a session written in one of the older formats loads as Migrated, as
\* the version that wrote it, and the torrent returned is the chain of migrate
\* steps applied to the instance written
C27_MigrationClosure ==
    Loaded => /\ sres.tag = "Migrated"
              /\ sres.ver = sver
              /\ sres.torrent = Migrate(sver, sinst)

\* A session of ver_5f166d of a complete torrent of eight pieces was loaded
C27_LoadPanicked ==
    /\ Loaded
    /\ sver = "ver_5f166d"
    /\ sinst.pieces = BitfieldOf(8, TRUE)
    /\ sres.tag = "Panic"

\* Sessions that load as the claim has it: of an incomplete torrent, written
\* by the oldest version
C27_LoadMigrated ==
    /\ Loaded
    /\ sver = "ver_8e1121"
    /\ sres.tag = "Migrated"
    /\ sres.ver = sver
    /\ sres.torrent = Migrate(sver, sinst)

-----------------------------------------------------------------------------
(* Claims about the round trip of a KRPC message *)

\* C28: the bytes encode makes of a Request or Response decode, and encoding
\* the decoded message gives the same bytes again
C28_RoundTrip ==
    /\ kdec.done => kdec.ok
    /\ kwire2 # <<>> => kwire2 = kwire

\* The ids of a message: its own, the target, those of its nodes
IdsOf(msg) ==
    (IF "id" \in DOMAIN msg.kind THEN {msg.kind.id} ELSE {})
    \cup (IF "target" \in DOMAIN msg.kind THEN {msg.kind.target} ELSE {})
    \cup (IF "nodes" \in DOMAIN msg.kind
          THEN {msg.kind.nodes[i].id : i \in 1..Len(msg.kind.nodes)} ELSE {})

\* A message all of whose ids have no leading zero byte makes the round trip,
\* and decodes as the message sent
C28_RoundTripOfFullIds ==
    kmsg.dir # "none" /\ (\A id \in IdsOf(kmsg) : Len(id) = 20) =>
        /\ kdec.done => kdec.ok /\ kdec.msg = kmsg
        /\ kwire2 # <<>> => kwire2 = kwire

\* A ping whose id starts with a zero byte was encoded and did not decode
C28_IdTooShort ==
    /\ kmsg.dir = "request"
    /\ kmsg.kind.q = "ping"
    /\ Len(kmsg.kind.id) = 19
    /\ kdec.done
    /\ ~kdec.ok

\* A response that lists a node made the round trip
C28_RoundTripDone ==
    /\ kmsg.dir = "response"
    /\ kmsg.kind.r = "find_node"
    /\ kmsg.kind.nodes # <<>>
    /\ kwire2 = kwire
    /\ kwire2 # <<>>

-----------------------------------------------------------------------------
(* Claims about merge_json and the JSON Merge Patch *)

\* C29: merge_json leaves in original the RFC 7396 merge patch of original
\* with update
C29_MergeIsMergePatch == jdone => jorig = MergePatch(jin.o, jin.u)

RECURSIVE NullFree(_)

\* No null anywhere in the value
NullFree(v) ==
    /\ v # JNull
    /\ IsObject(v) => \A k \in DOMAIN v[2] : NullFree(v[2][k])

RECURSIVE PatchesObjects(_, _)

\* Every object of the update meets an object of the original, or holds no
\* null
PatchesObjects(o, u) ==
    IsObject(u) =>
        IF IsObject(o)
        THEN \A k \in DOMAIN u[2] :
                \/ u[2][k] = JNull
                \/ k \in DOMAIN o[2] /\ PatchesObjects(o[2][k], u[2][k])
                \/ k \notin DOMAIN o[2] /\ NullFree(u[2][k])
        ELSE NullFree(u)

\* For such an update merge_json is the merge patch, and for no other
C29_MergePatchOfObjects ==
    jdone => (jorig = MergePatch(jin.o, jin.u) <=> PatchesObjects(jin.o, jin.u))

\* A null below a key new to the original is in the result
C29_NullKept ==
    /\ jdone
    /\ jin.o = JObject([k \in {} |-> JNull])
    /\ jin.u = JObject([k \in {"a"} |-> JObject([x \in {"b"} |-> JNull])])
    /\ jorig = jin.u

\* A null deletes a key of an object nested in the original
C29_NestedDelete ==
    /\ jdone
    /\ jin.o = JObject([k \in {"a"} |-> JObject([x \in {"b"} |-> JScalar(1)])])
    /\ jin.u = JObject([k \in {"a"} |-> JObject([x \in {"b"} |-> JNull])])
    /\ jorig = JObject([k \in {"a"} |-> JObject([x \in {} |-> JNull])])

-----------------------------------------------------------------------------
(* Claims about the outcome of a UDP announce *)

\* The announces a call of the handler gives up: their connections are gone
GivenUpBy == DOMAIN uconnections \ DOMAIN uconnections'

\* C30: an announce has one outcome.  A call of the handler returns one
\* Response for every announce it gives up and no other; the announce given
\* up is one whose new_announce returned Ok; and new_announce reports its
\* error itself, returning no Response
C30_OneOutcome ==
    [][/\ ulast'.op # "time" => Len(uresps') = Cardinality(GivenUpBy)
       /\ \A id \in GivenUpBy : uconnections[id].result = "Ok"
       /\ ulast'.op = "new_announce" => uresps' = <<>>]_vars

\* The same of the announces whose DNS query new_query accepted, for the
\* calls that return
C30_OneOutcomeOfQueried ==
    [][/\ ulast'.op # "time" /\ ulast'.result # "Panic"
            => Len(uresps') = Cardinality(GivenUpBy)
       /\ \A id \in GivenUpBy : uconnections[id].result \in {"Ok", "DnsIo"}
       /\ ulast'.op = "new_announce" /\ ulast'.result = "Ok"
            => conn_count \in DOMAIN uconnections'
       /\ ulast'.op = "new_announce" /\ ulast'.result \in {"UrlNoHost", "Connection"}
            => DOMAIN uconnections' = DOMAIN uconnections
       /\ ulast'.op = "new_announce" => uresps' = <<>>]_vars

\* An announce of which new_announce returned DnsIo has waited 15 s: the next
\* tick returns its Timeout
C30_FailedAnnounceTimesOut ==
    \E id \in DOMAIN uconnections :
        uconnections[id].result = "DnsIo" /\ TimedOutConn(uconnections[id])

-----------------------------------------------------------------------------
(* Claims about the stage of a UDP announce and the datagrams received *)

\* The transaction id of the connection is mapped to it
Mapped(conns, trans, id) ==
    conns[id].tid \in DOMAIN trans /\ trans[conns[id].tid] = id

\* The connection waits for the tracker
AwaitsTracker(conn) == conn.state \in {"Connecting", "Announcing"}

\* C31: a datagram acts on an announce only at its stage.  readable completes
\* with a tracker response no announce that is still Connecting, it leaves
\* the transaction of an announce whose stage it does not change in the map,
\* and every announce in Connecting or Announcing has its transaction id
\* mapped to it
C31_StageMatched ==
    [][/\ ulast'.op = "readable" =>
            \A id \in DOMAIN uconnections :
               /\ uconnections[id].state = "Connecting" /\ id \notin DOMAIN uconnections'
                    => \A i \in 1..Len(uresps') : uresps'[i].res # "Ok"
               /\ (/\ id \in DOMAIN uconnections'
                   /\ uconnections'[id].state = uconnections[id].state
                   /\ Mapped(uconnections, transactions, id))
                    => Mapped(uconnections', transactions', id)
       /\ \A id \in DOMAIN uconnections :
            AwaitsTracker(uconnections[id]) => Mapped(uconnections, transactions, id)]_vars

\* An announce completed by an announce response while it was Connecting
C31_CompletedWhileConnecting ==
    /\ ulast.op = "readable"
    /\ uresps # <<>> /\ uresps[1].res = "Ok"
    /\ sent = <<>>
    /\ \A id \in DOMAIN uconnections : uconnections[id].cid = 0

\* An announce in Announcing whose transaction id is no longer in the map
C31_AnnouncingUnmapped ==
    \E id \in DOMAIN uconnections :
        /\ uconnections[id].state = "Announcing"
        /\ uconnections[id].tid \notin DOMAIN transactions

-----------------------------------------------------------------------------
(* Claims about the bytes the Reader consumes for a frame *)

\* The Reader has just accepted the frame that follows the handshake
FrameAccepted == nEmitted = 2 /\ rres = "Success"

\* C32: for a frame it accepts the Reader consumes the 4 bytes of the length
\* prefix and as many bytes as the prefix says, and the prefix is one the
\* message id of the frame can have
C32_ConsumesTheFrame ==
    FrameAccepted =>
        /\ pos = HANDSHAKE_LEN + 4 + cur.mlen
        /\ LengthFits(cur.id, cur.mlen)

\* What the Reader consumes for the frame it accepts: the fixed size of the
\* message id whatever the prefix says, and the prefix for a Bitfield, a
\* Piece and an Extension
C32_ConsumesBySize ==
    FrameAccepted =>
        pos = HANDSHAKE_LEN + 4 +
              (IF cur.id \in {5, 7, 20} THEN cur.mlen ELSE FixedLen(cur.id))

\* A Choke whose length prefix is 5 has been accepted, 4 of its bytes not read
C32_ChokeOfFive ==
    /\ FrameAccepted
    /\ cur.id = 0 /\ cur.mlen = 5
    /\ out = MChoke
    /\ pos = HANDSHAKE_LEN + 5

\* A Have whose length prefix is 1 has been accepted, its index read from the
\* frame that follows
C32_HaveOfOne ==
    /\ FrameAccepted
    /\ cur.id = 4 /\ cur.mlen = 1
    /\ out = MHave(1)
    /\ pos = HANDSHAKE_LEN + 9

\* The length of the block of a Piece frame shorter than its header is
\* computed below zero
C32_PieceUnderflow ==
    /\ rres = "Overflow"
    /\ cur.id = 7 /\ cur.mlen < 9

-----------------------------------------------------------------------------
(* Claims about the Started and Stopped announces of a torrent *)

\* Started and Stopped take turns, Started first
Alternate(events) ==
    \A i \in 1..Len(events) :
        events[i] = IF i % 2 = 1 THEN "started" ELSE "stopped"

\* C33: the Started and Stopped announces of a torrent alternate, beginning
\* with Started, and the last announce of a dropped torrent is Stopped
C33_StartedStoppedAlternate ==
    /\ Alternate(levents)
    /\ ldropped => Len(levents) % 2 = 0

\* The same of a torrent that was made by new or read from data whose status
\* is not Paused
C33_AlternateUnlessReadPaused ==
    lorigin # "Paused" => Alternate(levents) /\ (ldropped => Len(levents) % 2 = 0)

\* A torrent read from data with status Paused was resumed: two Started
\* announces and no Stopped between them
C33_StartedTwice ==
    /\ lorigin = "Paused"
    /\ levents = <<"started", "started">>

\* A torrent read from data with status Paused was dropped: Started was its
\* last announce
C33_DroppedStarted ==
    /\ lorigin = "Paused"
    /\ ldropped
    /\ levents = <<"started">>

\* A torrent made by new was paused, resumed and dropped
C33_FullLife ==
    /\ lorigin = "new"
    /\ ldropped
    /\ levents = <<"started", "stopped", "started", "stopped">>

-----------------------------------------------------------------------------
(* Claims about the requests resume sends *)

\* resume would take the torrent back to the download
Resumable(t) == t.status = "Paused" \/ (t.status = "DiskError" /\ ~Complete(t))

\* C34: resume on a Paused torrent, or on one in DiskError that lacks pieces,
\* sends a Request to every connected peer that can queue one and for which
\* the picker has a block
C34_ResumeRequests ==
    Resumable(tor) =>
        \A want \in Wants : want \cap tor.peers \subseteq Resume(Fresh(tor), want).req

\* What resume does: it sends no Request at all, whichever peers could take one
C34_ResumeRequestsNothing ==
    /\ \A want \in Wants : Resume(Fresh(tor), want).req = {}
    /\ tlast.op = "resume" => tor.req = {}

\* A paused torrent with a connected peer and a piece missing has been
\* resumed: it is Pending and has sent no Request
C34_ResumedIdle ==
    /\ tlast.op = "resume"
    /\ tlast.was = "Paused"
    /\ tor.status = "Pending"
    /\ tor.peers # {}
    /\ tor.trk = <<"started">>
    /\ tor.req = {}

-----------------------------------------------------------------------------
(* Claims about the disk reads made for the Requests of a peer *)

\* The last call handled the Request of a peer
RequestHandled == tlast.op = "peer_ev" /\ tlast.kind = "Request"

\* C35: a disk read is made for a Request only when the piece it names is a
\* piece of the torrent that the torrent has; a Request for a piece the
\* torrent lacks makes no disk read and does not make the status Seeding
C35_ReadsOnlyPossessed ==
    RequestHandled =>
        \A index \in tlast.pieces :
            /\ tor.rd > 0 => index \in Pieces /\ index \in tor.pieces
            /\ index \notin tor.pieces =>
                 /\ tor.rd = 0
                 /\ tor.status = "Seeding" => tlast.was = "Seeding"

\* What decides about the read: the status and the length asked for, not the
\* pieces of the torrent
C35_ReadsWhenRunning ==
    RequestHandled =>
        /\ tor.rd > 0 <=> (tlast.msg.good /\ ~Stopped(tlast.was) /\ tlast.was # "Leeching")
        /\ ~Stopped(tlast.was) /\ tlast.was # "Leeching" => tor.status = "Seeding"

\* A torrent without any piece has read a block from the disk for a peer and
\* is Seeding
C35_ReadOfMissingPiece ==
    /\ RequestHandled
    /\ tor.pieces = {}
    /\ tlast.was = "Pending"
    /\ tor.rd = 1
    /\ tor.status = "Seeding"

-----------------------------------------------------------------------------
(* Claims about the cache after an open that failed *)

\* The call that ends the step returned an error because the file could not
\* be opened or created: the file is not there afterwards either
OpenFailed == last'.op \in {"read", "write"} /\ ~last'.ok /\ last'.path \notin disk'

\* C36: a read or write that fails because the file cannot be opened or
\* created leaves the cache with the entries it had, their roles and their
\* used bits the same
C36_FailedOpenKeepsCache ==
    [][OpenFailed => files' = files]_vars

\* What such a call leaves: no new entry, the entries that remain with their
\* roles and flags, their used bits kept or cleared; and the whole cache as it
\* was when it was not full and held no entry of the path
C36_FailedOpenInsertsNothing ==
    [][OpenFailed =>
          /\ DOMAIN files' \subseteq DOMAIN files
          /\ \A p \in DOMAIN files' :
                files'[p] \in {files[p], [files[p] EXCEPT !.used = FALSE]}
          /\ (~last'.wasFull /\ last'.path \notin DOMAIN files) => files' = files]_vars

\* A read of a missing file by a full cache has closed the entry of another
\* file
C36_FailedReadEvicted ==
    /\ last.op = "read" /\ ~last.ok
    /\ last.closed # {}
    /\ last.path \notin last.closed
    /\ last.path \notin disk
    /\ files = NoFiles

-----------------------------------------------------------------------------
(* Claims about the datagrams that make the UDP handler panic *)

\* C37: readable panics on no datagram
C37_ReadableNeverPanics == Running

\* When readable panics: on a datagram of a known transaction id, after it has
\* taken the announce of that transaction out of the table, and without a
\* Response for it
C37_PanicsInAnnounceResponse ==
    [][ulast'.result = "Panic" =>
          /\ ulast'.op = "readable"
          /\ ulast'.known
          /\ Cardinality(GivenUpBy) = 1
          /\ uresps' = <<>>]_vars

\* readable has panicked on the announce response to an announce that was
\* Announcing
C37_PanickedOnPeers ==
    /\ ~Running
    /\ ulast.op = "readable"
    /\ uconnections = NoFiles
    /\ conn_count = 1
    /\ uresps = <<>>

-----------------------------------------------------------------------------
(* Claims about the WebSocket fragment buffer *)

RECURSIVE Payloads(_)
Payloads(frames) ==
    IF frames = <<>> THEN <<>> ELSE frames[1].data \o Payloads(Tail(frames))

\* The frames are one message: a Text or Binary frame, then Continuation
\* frames, of which the last alone has FIN
OneMessage(frames) ==
    /\ frames # <<>>
    /\ frames[1].opcode \in {"Text", "Binary"}
    /\ \A i \in 2..Len(frames) : frames[i].opcode = "Continuation"
    /\ \A i \in 1..Len(frames) : frames[i].fin <=> i = Len(frames)

Delivered == clast.op = "frame" /\ clast.res = "Frame"

\* C38: a data message is delivered only on a frame with FIN, and its payload
\* is the concatenation, in order, of the Text or Binary frame that began it
\* and the Continuation frames after it; a Continuation frame with no message
\* in progress and a Text or Binary frame with one in progress are errors
\* that end the connection; a Ping or a Pong between fragments leaves the
\* buffered fragments as they were.
C38_FragmentsDelivered ==
    [][clast'.op = "frame" =>
        /\ Delivered' =>
              /\ clast'.fin
              /\ Processed(clast')
              /\ OneMessage(cframes')
              /\ clast'.frame.kind = cframes'[1].opcode
              /\ clast'.frame.data = Payloads(cframes')
        /\ (/\ Processed(clast')
            /\ \/ fragbuf.kind = "None" /\ clast'.opcode = "Continuation"
               \/ fragbuf.kind # "None" /\ clast'.opcode \in {"Text", "Binary"})
              => clast'.res = "BadPayload" /\ cdropped'
        /\ clast'.opcode \in {"Ping", "Pong"} => fragbuf' = fragbuf
        /\ fragbuf'.kind # "None" => fragbuf'.data = Payloads(cframes')]_vars

\* A text message of three fragments was delivered whose second and third
\* frames carry the two bytes of one character
C38_ThreeFragments ==
    /\ Delivered
    /\ Len(cframes) = 3
    /\ clast.frame = [kind |-> "Text", data |-> <<65, 195, 169>>]

\* A Ping was answered between two fragments
C38_PingBetweenFragments ==
    /\ clast.op = "frame"
    /\ clast.opcode = "Ping"
    /\ clast.res = "Continue"
    /\ fragbuf.kind = "Binary"
    /\ fragbuf.data # <<>>

\* A Continuation frame arrived with no message in progress
C38_StrayContinuation ==
    /\ clast.op = "frame"
    /\ clast.opcode = "Continuation"
    /\ Len(cframes) = 1
    /\ clast.res = "BadPayload"
    /\ cdropped

\* A Text frame arrived while a binary message was in progress
C38_DataWhileFragmented ==
    /\ clast.op = "frame"
    /\ clast.opcode = "Text"
    /\ Len(cframes) = 2
    /\ cframes[1].opcode = "Binary"
    /\ clast.res = "BadPayload"
    /\ cdropped

-----------------------------------------------------------------------------
(* Claims about == and != on numbers *)

\* The number as a count of EPSILON
UnitsOf(x) == IF x.t = "N" THEN AsF32(x.v) ELSE x.v

\* The two numbers are equal within the tolerance, whichever is the larger
WithinTolerance(a, b) ==
    /\ UnitsOf(a) - UnitsOf(b) <= EPSILON
    /\ UnitsOf(b) - UnitsOf(a) <= EPSILON

\* C39: on a numeric field and a numeric value, == matches exactly when the
\* two are equal within the float tolerance, in either direction of the
\* difference, and != matches exactly when == does not.
C39_EqWithinTolerance ==
    /\ qlast.op = "Eq" => (qlast.res <=> WithinTolerance(qfield, qvalue))
    /\ qlast.op = "Neq" => (qlast.res <=> ~match_field(qfield, "Eq", qvalue))

\* What holds: != matches exactly when == does not; == is equality on two
\* integers, and with a float on either side it matches every field that is
\* not above the value by more than the tolerance.
C39_EqIsAtMost ==
    /\ qlast.op = "Eq" /\ qfield.t = "N" /\ qvalue.t = "N"
         => (qlast.res <=> qfield.v = qvalue.v)
    /\ qlast.op = "Eq" /\ "F" \in {qfield.t, qvalue.t}
         => (qlast.res <=> UnitsOf(qfield) <= UnitsOf(qvalue) + EPSILON)
    /\ qlast.op = "Neq" => (qlast.res <=> ~match_field(qfield, "Eq", qvalue))

\* A field of 0.5 matched == 1.0
C39_HalfEqualsOne ==
    /\ qfield = FieldF(UnitsPerOne \div 2)
    /\ qvalue = FieldF(UnitsPerOne)
    /\ qlast = QLast("Eq", TRUE)

\* An integer field of 1 did not match != 2.0
C39_OneNotUnequalTwo ==
    /\ qfield = FieldN(1)
    /\ qvalue = FieldF(2 * UnitsPerOne)
    /\ qlast = QLast("Neq", FALSE)

\* The tolerance in the direction the code allows: 1 + EPSILON matched == 1
C39_JustAbove ==
    /\ qfield = FieldF(UnitsPerOne + EPSILON)
    /\ qvalue = FieldN(1)
    /\ qlast = QLast("Eq", TRUE)

-----------------------------------------------------------------------------
(* Claims about the state a ver_5f166d session migrates to *)

\* Piece i (from 0) is set in the bytes of a bitfield
BitSet(data, i) == (data[(i \div 8) + 1] \div (2 ^ (7 - (i % 8)))) % 2 = 1

\* All len bits of the bitfield are set
AllBitsSet(bf) == \A i \in 0..(BinNum(bf.len) - 1) : BitSet(bf.data, i)

LoadedOld == Loaded /\ sver = "ver_5f166d"

\* C40: migrating a ver_5f166d session gives the state Complete exactly when
\* all len bits of the stored pieces are set and Incomplete otherwise, for
\* every length of the bitfield (0, 1 and those that are no multiple of 8
\* among them), with no index outside the stored bytes and no underflow.
C40_StateFromBitfield ==
    LoadedOld =>
        /\ sres.tag = "Migrated"
        /\ sres.torrent.session.status.state =
              IF AllBitsSet(sinst.pieces) THEN StateComplete ELSE StateIncomplete

\* What holds: the migration panics on a bitfield of no piece and on one
\* whose bytes are all 0xFF and fewer than len - 1; otherwise the state is
\* Incomplete, but for a complete torrent of one piece.
C40_CompleteOnlyOfOnePiece ==
    LoadedOld =>
        LET len == BinNum(sinst.pieces.len)
            data == sinst.pieces.data
        IN /\ sres.tag \in {"Migrated", "Panic"}
           /\ sres.tag = "Panic" <=>
                 \/ len = 0
                 \/ Len(data) < len - 1 /\ \A j \in 1..Len(data) : data[j] = 255
           /\ sres.tag = "Migrated" =>
                 sres.torrent.session.status.state =
                    IF len = 1 /\ AllBitsSet(sinst.pieces)
                    THEN StateComplete ELSE StateIncomplete

\* A complete torrent of FewPieces pieces has migrated to Incomplete
C40_CompleteAsIncomplete ==
    /\ LoadedOld
    /\ sinst.pieces = BitfieldOf(FewPieces, TRUE)
    /\ AllBitsSet(sinst.pieces)
    /\ sres.tag = "Migrated"
    /\ sres.torrent.session.status.state = StateIncomplete

\* The session of a magnet link, of no piece, has not migrated
C40_NoPiecePanicked ==
    /\ LoadedOld
    /\ BinNum(sinst.pieces.len) = 0
    /\ sres.tag = "Panic"

\* The length the loop is right about: a complete torrent of one piece
C40_OnePieceComplete ==
    /\ LoadedOld
    /\ sinst.pieces = BitfieldOf(1, TRUE)
    /\ sres.tag = "Migrated"
    /\ sres.torrent.session.status.state = StateComplete

=============================================================================
